---- MODULE Spec2Model ----
(***************************************************************************)
(* Aqua Adventure: the simulation core of the game.                        *)
(*                                                                         *)
(*   SceneManager   src/src/game/game_state.py                             *)
(*   Game (scenes)  src/src/game/main.py                                   *)
(*   Game (flat)    src/main.py                                            *)
(*   Player         src/src/game/player.py                                 *)
(*   Bubble         src/src/game/bubble.py                                 *)
(*   Enemy          src/src/game/enemy.py                                  *)
(*   SpriteAnimation     src/src/game/sprite_animation.py                  *)
(*   CharacterAnimation  src/src/game/character_animation.py               *)
(***************************************************************************)
EXTENDS Integers, Sequences, FiniteSets, TLC

VARIABLES
    sceneManager,   \* SceneManager: currentState, nextState, isTransitioning, transitionAlpha
    lastCall,       \* history: the last operation invoked and its argument
    accepted,       \* history: the transition request accepted last, and what was dropped since
    player,         \* Player, with the bubbles it owns
    enemies,        \* Game.enemies: sequence of Enemy / Jellyfish
    game,           \* Game of src/main.py: gameState, isRunning
    bubble,         \* a Bubble exercised on its own
    calls,          \* history: counters and results of the calls made so far
    pass,           \* history: what the last collision pass saw and did
    clamp,          \* history: the motion constrainToScreen found in the last updates
    screen,         \* what the last render drew, layer by layer
    clip,           \* a SpriteAnimation exercised on its own
    character       \* a CharacterAnimation and the clips bound to it

vars == <<sceneManager, lastCall, accepted, player, enemies, game, bubble, calls, pass, clamp, screen,
          clip, character>>

(***************************************************************************)
(* Numbers.  Positions, velocities and accelerations are pygame Vector2    *)
(* floats, kept here in fixed point: PosScale units to the pixel.  The     *)
(* gauges stamina and oxygen are floats kept in GaugeScale units to the    *)
(* point.  Rect coordinates are integers (pixels), as in pygame.Rect.      *)
(***************************************************************************)
PosScale == 10
GaugeScale == 100

SCREEN_WIDTH == 800
SCREEN_HEIGHT == 600

Min(a, b) == IF a < b THEN a ELSE b
Max(a, b) == IF a > b THEN a ELSE b
Abs(a) == IF a < 0 THEN -a ELSE a

\* integer division rounding toward zero (Python's int() of a float quotient)
TruncDiv(a, b) == IF a >= 0 THEN a \div b ELSE -((-a) \div b)

\* Rect assignment of a float coordinate: pygame truncates toward zero
ToPixel(p) == TruncDiv(p, PosScale)

Vec(x, y) == [x |-> x, y |-> y]

\* pygame.Rect.colliderect / pygame.sprite.collide_rect on boxes of sizes wa x ha, wb x hb
CollideRect(a, wa, ha, b, wb, hb) ==
    /\ a.x < b.x + wb
    /\ a.y < b.y + hb
    /\ a.x + wa > b.x
    /\ a.y + ha > b.y

(***************************************************************************)
(* Bubble                                                                  *)
(***************************************************************************)
BUBBLE_SIZE == 16
BUBBLE_SPEED == 8 * PosScale
BUBBLE_LIFETIME == 60

\* rect.center = (cx, cy) for a 16 x 16 rect
BubbleRect(pos) ==
    Vec(ToPixel(pos.x) - BUBBLE_SIZE \div 2, ToPixel(pos.y) - BUBBLE_SIZE \div 2)

\* Bubble.__init__(x, y, direction, power); x, y in pixels, direction.x in {-1, 1}
NewBubble(x, y, dirX, power) ==
    [position |-> Vec(x * PosScale, y * PosScale),
     velocity |-> Vec(dirX * BUBBLE_SPEED, 0),
     rect     |-> Vec(x - BUBBLE_SIZE \div 2, y - BUBBLE_SIZE \div 2),
     power    |-> power,
     lifetime |-> BUBBLE_LIFETIME,
     isActive |-> TRUE]

\* the test at the end of Bubble.update: the box is wholly outside the screen
BubbleOffScreen(rect) ==
    \/ rect.x + BUBBLE_SIZE < 0
    \/ rect.x > SCREEN_WIDTH
    \/ rect.y + BUBBLE_SIZE < 0
    \/ rect.y > SCREEN_HEIGHT

\* A lifetime test that lets the bubble live one update longer.
BubbleExpiredLate(lifetime) == lifetime < 0

\* the test `self.lifetime <= 0` of Bubble.update
BubbleExpired(lifetime) == lifetime <= 0

\* Bubble.update: the bubble after the call
BubbleUpdate(b) ==
    IF ~b.isActive THEN b
    ELSE LET life == b.lifetime - 1 IN
         IF BubbleExpired(life)
         THEN [b EXCEPT !.lifetime = life, !.isActive = FALSE]
         ELSE LET pos  == Vec(b.position.x + b.velocity.x, b.position.y + b.velocity.y)
                  rect == BubbleRect(pos)
              IN  [b EXCEPT !.lifetime = life, !.position = pos, !.rect = rect,
                            !.isActive = ~BubbleOffScreen(rect)]

\* Bubble.update: the value returned, which is the bubble's isActive after the call
BubbleUpdateReturn(b) == BubbleUpdate(b).isActive

\* a hit that flips isActive instead of clearing it
BubbleHitToggles(b) == [b EXCEPT !.isActive = ~b.isActive]

\* Bubble.hit
BubbleHit(b) == [b EXCEPT !.isActive = FALSE]

(***************************************************************************)
(* Player                                                                  *)
(***************************************************************************)
PLAYER_SIZE == 48
MOVE_SPEED == 5 * PosScale
DASH_SPEED == 8
DASH_COST == 20 * GaugeScale
FRAME_TIME_MILLIS == 16
WATER_RESISTANCE_TENTHS == 9
BUBBLE_COOLDOWN == 20
BUBBLE_OFFSET == 20
STAMINA_REGEN == GaugeScale \div 2
OXYGEN_DRAIN == GaugeScale \div 10


\* Player.__init__(x, y): the 48 x 48 rect is centred on (x, y)
NewPlayer(x, y) ==
    [rect         |-> Vec(x - PLAYER_SIZE \div 2, y - PLAYER_SIZE \div 2),
     position     |-> Vec((x - PLAYER_SIZE \div 2) * PosScale, (y - PLAYER_SIZE \div 2) * PosScale),
     velocity     |-> Vec(0, 0),
     acceleration |-> Vec(0, 0),
     maxHp        |-> 100,
     hp           |-> 100,
     maxStamina   |-> 100 * GaugeScale,
     stamina      |-> 100 * GaugeScale,
     maxOxygen    |-> 100 * GaugeScale,
     oxygen       |-> 100 * GaugeScale,
     power        |-> 10,
     currentBubbleCooldown |-> 0,
     isDashing    |-> FALSE,
     isInvincible |-> FALSE,
     facingRight  |-> TRUE,
     bubbles      |-> << >>]

\* Player.shootBubble
shootBubble(p) ==
    LET dirX    == IF p.facingRight THEN 1 ELSE -1
        bubbleX == p.rect.x + PLAYER_SIZE \div 2 + dirX * BUBBLE_OFFSET
        bubbleY == p.rect.y + PLAYER_SIZE \div 2
    IN  [p EXCEPT !.bubbles = Append(@, NewBubble(bubbleX, bubbleY, dirX, p.power))]

\* a dash test that forgets the stamina
CanDashAnyStamina(p, keys) == "K_LSHIFT" \in keys

\* a dash test that lets the player dash until the stamina is gone
CanDashUntilEmpty(p, keys) == "K_LSHIFT" \in keys /\ p.stamina > 0

\* the dash test of Player.handleInput
CanDash(p, keys) == "K_LSHIFT" \in keys /\ p.stamina >= DASH_COST

\* a fire test that forgets the cooldown
CanFireAnyCooldown(p, keys) == "K_SPACE" \in keys

\* the fire test of Player.handleInput
CanFire(p, keys) == "K_SPACE" \in keys /\ p.currentBubbleCooldown <= 0

\* Player.handleInput with the keys held
handleInput(p, keys) ==
    LET ax == IF "K_RIGHT" \in keys THEN MOVE_SPEED
              ELSE IF "K_LEFT" \in keys THEN -MOVE_SPEED ELSE 0
        ay == IF "K_DOWN" \in keys THEN MOVE_SPEED
              ELSE IF "K_UP" \in keys THEN -MOVE_SPEED ELSE 0
        facing == IF "K_RIGHT" \in keys THEN TRUE
                  ELSE IF "K_LEFT" \in keys THEN FALSE ELSE p.facingRight
        moved  == [p EXCEPT !.acceleration = Vec(ax, ay), !.facingRight = facing]
        dashed == IF CanDash(moved, keys)
                  THEN [moved EXCEPT !.isDashing = TRUE,
                                     !.stamina = @ - (DASH_COST * FRAME_TIME_MILLIS) \div 1000]
                  ELSE [moved EXCEPT !.isDashing = FALSE]
    IN  IF CanFire(dashed, keys)
        THEN [shootBubble(dashed) EXCEPT !.currentBubbleCooldown = BUBBLE_COOLDOWN]
        ELSE dashed

\* an updateBubbles that updates every bubble and removes none
updateBubblesKeepingAll(p) ==
    [p EXCEPT !.bubbles = [i \in 1..Len(@) |-> BubbleUpdate(@[i])]]

\* Player.updateBubbles: update every bubble, keep those whose update returned True
updateBubbles(p) ==
    [p EXCEPT !.bubbles = SelectSeq([i \in 1..Len(@) |-> BubbleUpdate(@[i])],
                                    LAMBDA b : b.isActive)]

\* a regenerateStatus that forgets the floor of the oxygen gauge
regenerateStatusNoFloor(p) ==
    [p EXCEPT !.stamina = IF ~p.isDashing /\ p.stamina < p.maxStamina
                          THEN Min(p.maxStamina, p.stamina + STAMINA_REGEN)
                          ELSE p.stamina,
              !.oxygen  = p.oxygen - OXYGEN_DRAIN]

\* a regenerateStatus that restores stamina in a tick of dash too
regenerateStatusWhileDashing(p) ==
    [p EXCEPT !.stamina = IF p.stamina < p.maxStamina
                          THEN Min(p.maxStamina, p.stamina + STAMINA_REGEN)
                          ELSE p.stamina,
              !.oxygen  = Max(0, p.oxygen - OXYGEN_DRAIN)]

\* a regenerateStatus that restores oxygen as it restores stamina
regenerateStatusOxygenRestored(p) ==
    [p EXCEPT !.stamina = IF ~p.isDashing /\ p.stamina < p.maxStamina
                          THEN Min(p.maxStamina, p.stamina + STAMINA_REGEN)
                          ELSE p.stamina,
              !.oxygen  = Min(p.maxOxygen, p.oxygen + OXYGEN_DRAIN)]

\* Player.regenerateStatus
regenerateStatus(p) ==
    [p EXCEPT !.stamina = IF ~p.isDashing /\ p.stamina < p.maxStamina
                          THEN Min(p.maxStamina, p.stamina + STAMINA_REGEN)
                          ELSE p.stamina,
              !.oxygen  = Max(0, p.oxygen - OXYGEN_DRAIN)]

\* a clamp of the player that keeps the velocity, as the clamp of the enemy does
PlayerClampAxisKeepingVelocity(r, pos, vel, limit) ==
    IF r < 0 THEN <<0, 0, vel>>
    ELSE IF r + PLAYER_SIZE > limit
    THEN <<limit - PLAYER_SIZE, (limit - PLAYER_SIZE) * PosScale, vel>>
    ELSE <<r, pos, vel>>

\* one axis of Player.constrainToScreen: <<rect coordinate, position, velocity>>
PlayerClampAxis(r, pos, vel, limit) ==
    IF r < 0 THEN <<0, 0, 0>>
    ELSE IF r + PLAYER_SIZE > limit
    THEN <<limit - PLAYER_SIZE, (limit - PLAYER_SIZE) * PosScale, 0>>
    ELSE <<r, pos, vel>>

\* Player.constrainToScreen
PlayerConstrainToScreen(p) ==
    LET cx == PlayerClampAxis(p.rect.x, p.position.x, p.velocity.x, SCREEN_WIDTH)
        cy == PlayerClampAxis(p.rect.y, p.position.y, p.velocity.y, SCREEN_HEIGHT)
    IN  [p EXCEPT !.rect = Vec(cx[1], cy[1]), !.position = Vec(cx[2], cy[2]),
                  !.velocity = Vec(cx[3], cy[3])]

\* velocity *= WATER_RESISTANCE
Drag(v) == TruncDiv(v * WATER_RESISTANCE_TENTHS, 10)

\* the physics step of Player.update: velocity, position and rect
PlayerIntegrate(p) ==
    LET boost == IF p.isDashing THEN DASH_SPEED ELSE 1
        vel   == Vec(Drag(p.velocity.x + p.acceleration.x * boost),
                     Drag(p.velocity.y + p.acceleration.y * boost))
        pos   == Vec(p.position.x + vel.x, p.position.y + vel.y)
    IN  [p EXCEPT !.velocity = vel, !.position = pos,
                  !.rect = Vec(ToPixel(pos.x), ToPixel(pos.y))]

\* the cooldown step of Player.update
PlayerCooldown(p) ==
    IF p.currentBubbleCooldown > 0
    THEN [p EXCEPT !.currentBubbleCooldown = @ - 1]
    ELSE p

\* Player.update with the keys held, up to the call of constrainToScreen
PlayerBeforeClamp(p, keys) ==
    regenerateStatus(
        updateBubbles(
            PlayerIntegrate(
                PlayerCooldown(
                    handleInput(p, keys)))))

\* Player.update with the keys held
PlayerUpdate(p, keys) == PlayerConstrainToScreen(PlayerBeforeClamp(p, keys))

\* a takeDamage that forgets the invincibility
takeDamageAlways(p, damage) ==
    [p EXCEPT !.hp = Max(0, p.hp - damage), !.isInvincible = TRUE]

\* Player.takeDamage
takeDamage(p, damage) ==
    IF ~p.isInvincible
    THEN [p EXCEPT !.hp = Max(0, p.hp - damage), !.isInvincible = TRUE]
    ELSE p

\* Player.heal
heal(p, amount) == [p EXCEPT !.hp = Min(p.maxHp, p.hp + amount)]

(***************************************************************************)
(* Enemy and Jellyfish                                                     *)
(***************************************************************************)
ENEMY_SIZE == 32
ENEMY_DAMAGE == 10
ENEMY_HP == 10
ENEMY_MOVE_SPEED == 2 * PosScale
JELLYFISH_HP == 5
JELLYFISH_MOVE_SPEED == (3 * PosScale) \div 2
OSCILLATION_SPEED == 2
OSCILLATION_AMPLITUDE == 30 * PosScale
PI_MILLI == 3142

\* floor of the square root, by bisection on lo..hi
RECURSIVE IsqrtIter(_, _, _)
IsqrtIter(n, lo, hi) ==
    IF lo >= hi THEN lo
    ELSE LET mid == (lo + hi + 1) \div 2
         IN  IF mid * mid <= n THEN IsqrtIter(n, mid, hi) ELSE IsqrtIter(n, lo, mid - 1)

Isqrt(n) == IsqrtIter(n, 0, 20000)

\* direction.normalize() * speed, one component: c * speed / |(dx, dy)|.
\* Short vectors are scaled up before the root is taken to keep the precision.
Steer(c, dx, dy, speed) ==
    LET k   == IF Abs(dx) < 100 * PosScale /\ Abs(dy) < 100 * PosScale THEN 10 ELSE 1
        len == Isqrt(k * k * (dx * dx + dy * dy))
    IN  TruncDiv(c * k * speed, len)

\* amplitude * math.sin(a) for a in milliradians, 0 <= a <= pi (Bhaskara's formula)
HalfWave(a, amplitude) ==
    LET prod == a * (PI_MILLI - a)
    IN  (amplitude * 16 * (prod \div 100)) \div ((5 * PI_MILLI * PI_MILLI - 4 * prod) \div 100)

\* math.sin(time * oscillationSpeed) * oscillationAmplitude, time in frames of 16 ms
Oscillation(time) ==
    LET a == (time * FRAME_TIME_MILLIS * OSCILLATION_SPEED) % (2 * PI_MILLI)
    IN  IF a <= PI_MILLI THEN HalfWave(a, OSCILLATION_AMPLITUDE)
        ELSE -HalfWave(a - PI_MILLI, OSCILLATION_AMPLITUDE)

\* Enemy.__init__(x, y, hp)
NewEnemy(x, y, hp) ==
    [kind        |-> "enemy",
     rect        |-> Vec(x, y),
     position    |-> Vec(x * PosScale, y * PosScale),
     velocity    |-> Vec(0, 0),
     maxHp       |-> hp,
     hp          |-> hp,
     damage      |-> ENEMY_DAMAGE,
     moveSpeed   |-> ENEMY_MOVE_SPEED,
     isAlive     |-> TRUE,
     facingRight |-> TRUE,
     initialY    |-> y * PosScale,
     time        |-> 0]

\* Jellyfish.__init__(x, y)
NewJellyfish(x, y) ==
    [NewEnemy(x, y, JELLYFISH_HP) EXCEPT !.kind = "jellyfish",
                                         !.moveSpeed = JELLYFISH_MOVE_SPEED]

\* a clamp of the enemy that holds it at the low edge only
EnemyClampAxisLowOnly(r, pos, limit) ==
    IF r < 0 THEN <<0, 0>> ELSE <<r, pos>>

\* one axis of Enemy.constrainToScreen: <<rect coordinate, position>>
EnemyClampAxis(r, pos, limit) ==
    IF r < 0 THEN <<0, 0>>
    ELSE IF r + ENEMY_SIZE > limit
    THEN <<limit - ENEMY_SIZE, (limit - ENEMY_SIZE) * PosScale>>
    ELSE <<r, pos>>

\* Enemy.constrainToScreen
EnemyConstrainToScreen(e) ==
    LET cx == EnemyClampAxis(e.rect.x, e.position.x, SCREEN_WIDTH)
        cy == EnemyClampAxis(e.rect.y, e.position.y, SCREEN_HEIGHT)
    IN  [e EXCEPT !.rect = Vec(cx[1], cy[1]), !.position = Vec(cx[2], cy[2])]

\* Enemy.moveTowardsPlayer
moveTowardsPlayer(e, playerPos) ==
    LET dx == playerPos.x - e.position.x
        dy == playerPos.y - e.position.y
    IN  IF dx = 0 /\ dy = 0
        THEN [e EXCEPT !.facingRight = FALSE]
        ELSE [e EXCEPT !.velocity = Vec(Steer(dx, dx, dy, e.moveSpeed),
                                        Steer(dy, dx, dy, e.moveSpeed)),
                       !.facingRight = dx > 0]

\* Enemy.update(playerPos), up to the call of constrainToScreen
EnemyBaseMove(e, playerPos) ==
    LET m   == moveTowardsPlayer(e, playerPos)
        pos == Vec(m.position.x + m.velocity.x, m.position.y + m.velocity.y)
    IN  [m EXCEPT !.position = pos, !.rect = Vec(ToPixel(pos.x), ToPixel(pos.y))]

\* Jellyfish.update(playerPos), up to the call of constrainToScreen
JellyfishMove(e, playerPos) ==
    LET dx   == playerPos.x - e.position.x
        dy   == playerPos.y - e.position.y
        vx   == IF dx = 0 /\ dy = 0 THEN e.velocity.x
                ELSE Steer(dx, dx, dy, e.moveSpeed)
        time == e.time + 1
        pos  == Vec(e.position.x + vx, e.initialY + Oscillation(time))
    IN  [e EXCEPT !.velocity = Vec(vx, e.velocity.y), !.time = time,
                  !.position = pos, !.rect = Vec(ToPixel(pos.x), ToPixel(pos.y))]

\* enemy.update(playerPos) up to the call of constrainToScreen, by class of enemy
EnemyBeforeClamp(e, playerPos) ==
    IF e.kind = "jellyfish" THEN JellyfishMove(e, playerPos)
    ELSE EnemyBaseMove(e, playerPos)

\* an update that does not test isAlive
EnemyUpdateUngated(e, playerPos) == EnemyConstrainToScreen(EnemyBeforeClamp(e, playerPos))

\* Enemy.update / Jellyfish.update: nothing for a dead enemy, else move and constrain
EnemyUpdate(e, playerPos) ==
    IF ~e.isAlive THEN e
    ELSE EnemyConstrainToScreen(EnemyBeforeClamp(e, playerPos))

\* Enemy.takeDamage, with Enemy.die
EnemyTakeDamage(e, damage) ==
    LET hp == Max(0, e.hp - damage)
    IN  [e EXCEPT !.hp = hp, !.isAlive = IF hp <= 0 THEN FALSE ELSE e.isAlive]

(***************************************************************************)
(* Collision passes.  A pass works on a record w:                          *)
(*   player, enemies   the objects, changed as the pass goes               *)
(*   hits              the <<bubble, enemy>> index pairs that registered   *)
(*   contacts          the enemy indices that called player.takeDamage     *)
(***************************************************************************)
BubbleHitsEnemy(b, e) ==
    CollideRect(b.rect, BUBBLE_SIZE, BUBBLE_SIZE, e.rect, ENEMY_SIZE, ENEMY_SIZE)

PlayerTouchesEnemy(p, e) ==
    CollideRect(p.rect, PLAYER_SIZE, PLAYER_SIZE, e.rect, ENEMY_SIZE, ENEMY_SIZE)

PassStart(p, es) == [player |-> p, enemies |-> es, hits |-> {}, contacts |-> {}]

\* src/main.py Game.update, lines 91-95: bubble i against enemy j, then the pairs after it
RECURSIVE FlatBubblePass(_, _, _)
FlatBubblePass(w, i, j) ==
    IF i > Len(w.player.bubbles) THEN w
    ELSE IF j > Len(w.enemies) THEN FlatBubblePass(w, i + 1, 1)
    ELSE LET b == w.player.bubbles[i]
             e == w.enemies[j]
         IN  IF e.isAlive /\ BubbleHitsEnemy(b, e)
             THEN FlatBubblePass(
                      [w EXCEPT !.enemies[j] = EnemyTakeDamage(e, w.player.power),
                                !.player.bubbles[i] = BubbleHit(b),
                                !.hits = @ \cup {<<i, j>>}],
                      i, j + 1)
             ELSE FlatBubblePass(w, i, j + 1)

\* src/main.py Game.update, lines 98-100: the player against enemy j, then the enemies after it
RECURSIVE FlatPlayerPass(_, _)
FlatPlayerPass(w, j) ==
    IF j > Len(w.enemies) THEN w
    ELSE LET e == w.enemies[j]
         IN  IF e.isAlive /\ PlayerTouchesEnemy(w.player, e)
             THEN FlatPlayerPass(
                      [w EXCEPT !.player = takeDamage(w.player, e.damage),
                                !.contacts = @ \cup {j}],
                      j + 1)
             ELSE FlatPlayerPass(w, j + 1)

\* src/main.py Game.update, lines 91-100: both collision loops
FlatCollisions(p, es) == FlatPlayerPass(FlatBubblePass(PassStart(p, es), 1, 1), 1)

\* src/src/game/main.py Game.checkCollisions, lines 308-310
RECURSIVE ScenePlayerPass(_, _)
ScenePlayerPass(w, j) ==
    IF j > Len(w.enemies) THEN w
    ELSE LET e == w.enemies[j]
         IN  IF PlayerTouchesEnemy(w.player, e)
             THEN ScenePlayerPass(
                      [w EXCEPT !.player = takeDamage(w.player, e.damage),
                                !.contacts = @ \cup {j}],
                      j + 1)
             ELSE ScenePlayerPass(w, j + 1)

\* src/src/game/main.py Game.checkCollisions, lines 313-316
RECURSIVE SceneBubblePass(_, _, _)
SceneBubblePass(w, i, j) ==
    IF i > Len(w.player.bubbles) THEN w
    ELSE IF j > Len(w.enemies) THEN SceneBubblePass(w, i + 1, 1)
    ELSE LET b == w.player.bubbles[i]
             e == w.enemies[j]
         IN  IF BubbleHitsEnemy(b, e)
             THEN SceneBubblePass(
                      [w EXCEPT !.enemies[j] = EnemyTakeDamage(e, b.power),
                                !.hits = @ \cup {<<i, j>>}],
                      i, j + 1)
             ELSE SceneBubblePass(w, i, j + 1)

\* src/src/game/main.py Game.checkCollisions
checkCollisions(p, es) == SceneBubblePass(ScenePlayerPass(PassStart(p, es), 1), 1, 1)

\* `for enemy in self.enemies: enemy.update(self.player.position)`
RECURSIVE UpdateEnemies(_, _)
UpdateEnemies(es, playerPos) ==
    IF es = << >> THEN << >>
    ELSE <<EnemyUpdate(Head(es), playerPos)>> \o UpdateEnemies(Tail(es), playerPos)

\* the history of a collision pass: the objects it started from and what it did
PassRecord(p, es, w) ==
    [ran |-> TRUE, player |-> p, enemies |-> es,
     hits |-> w.hits, contacts |-> w.contacts, after |-> w.enemies]

NoPass ==
    [ran |-> FALSE, player |-> NewPlayer(0, 0), enemies |-> << >>,
     hits |-> {}, contacts |-> {}, after |-> << >>]

(***************************************************************************)
(* Game (flat), src/main.py                                                *)
(***************************************************************************)
FlatGameInit == [gameState |-> "TITLE", isRunning |-> TRUE]

\* Game.handleEvents, for one KEYDOWN event
handleEvents(g, key) ==
    IF key = "K_ESCAPE"
    THEN IF g.gameState = "PLAYING" THEN [g EXCEPT !.gameState = "PAUSED"]
         ELSE IF g.gameState = "PAUSED" THEN [g EXCEPT !.gameState = "PLAYING"]
         ELSE g
    ELSE IF key = "K_SPACE" /\ g.gameState = "TITLE" THEN [g EXCEPT !.gameState = "PLAYING"]
    ELSE IF key = "K_q" /\ g.gameState = "PAUSED" THEN [g EXCEPT !.isRunning = FALSE]
    ELSE g

\* the layers Game.render draws in PLAYING, after the background
PlayingScene == <<"player", "bubbles", "enemies", "statusBars">>

\* Game.render: the layers drawn, in order
render(g) ==
    <<"background">> \o
        (IF g.gameState = "PLAYING" THEN PlayingScene
         ELSE IF g.gameState = "TITLE" THEN <<"title">>
         ELSE IF g.gameState = "PAUSED" THEN <<"pause">>
         ELSE << >>)

\* `self.enemies = [enemy for enemy in self.enemies if enemy.isAlive]`
RemoveDead(es) == SelectSeq(es, LAMBDA e : e.isAlive)

(***************************************************************************)
(* SceneManager                                                            *)
(***************************************************************************)
GameStates == {"TITLE", "PLAYING", "PAUSED", "GAME_OVER"}
None == "None"

TRANSITION_SPEED == 5
ALPHA_MAX == 255

\* SceneManager.__init__
SceneManagerInit ==
    [currentState |-> "TITLE", nextState |-> None,
     isTransitioning |-> FALSE, transitionAlpha |-> 0]

\* A changeState that overwrites a pending transition.
changeStateUnguarded(sm, newState) ==
    [sm EXCEPT !.nextState = newState, !.isTransitioning = TRUE]

\* a changeState that records the target and forgets to start the transition
changeStateNotStarted(sm, newState) ==
    IF ~sm.isTransitioning
    THEN [sm EXCEPT !.nextState = newState]
    ELSE sm

\* a changeState that cuts to the new state at once
changeStateDirectCut(sm, newState) ==
    IF ~sm.isTransitioning
    THEN [sm EXCEPT !.currentState = newState]
    ELSE sm

\* SceneManager.changeState
changeState(sm, newState) ==
    IF ~sm.isTransitioning
    THEN [sm EXCEPT !.nextState = newState, !.isTransitioning = TRUE]
    ELSE sm

\* SceneManager.updateTransition
updateTransition(sm) ==
    IF sm.nextState = None THEN sm
    ELSE IF sm.transitionAlpha < ALPHA_MAX
    THEN [sm EXCEPT !.transitionAlpha = Min(ALPHA_MAX, sm.transitionAlpha + TRANSITION_SPEED)]
    ELSE LET alpha == Max(0, sm.transitionAlpha - TRANSITION_SPEED)
         IN  IF alpha = 0
             THEN [sm EXCEPT !.currentState = sm.nextState, !.transitionAlpha = alpha,
                             !.isTransitioning = FALSE, !.nextState = None]
             ELSE [sm EXCEPT !.currentState = sm.nextState, !.transitionAlpha = alpha]

(***************************************************************************)
(* Game (scenes): key handling                                             *)
(***************************************************************************)
Keys == {"K_SPACE", "K_ESCAPE", "K_q", "K_LEFT"}

\* a handleKeyDown in which K_q asks for the title in every state
requestedStateQuitAnywhere(current, key) ==
    CASE key = "K_q"                                -> "TITLE"
      [] current = "TITLE"     /\ key = "K_SPACE"  -> "PLAYING"
      [] current = "PLAYING"   /\ key = "K_ESCAPE" -> "PAUSED"
      [] current = "PAUSED"    /\ key = "K_ESCAPE" -> "PLAYING"
      [] current = "GAME_OVER" /\ key = "K_SPACE"  -> "TITLE"
      [] OTHER -> None

\* Game.handleKeyDown: the state requested for a key, or None
requestedState(current, key) ==
    CASE current = "TITLE"     /\ key = "K_SPACE"  -> "PLAYING"
      [] current = "PLAYING"   /\ key = "K_ESCAPE" -> "PAUSED"
      [] current = "PAUSED"    /\ key = "K_ESCAPE" -> "PLAYING"
      [] current = "PAUSED"    /\ key = "K_q"      -> "TITLE"
      [] current = "GAME_OVER" /\ key = "K_SPACE"  -> "TITLE"
      [] OTHER -> None

\* Game.updateTitle, updatePlaying, updatePaused, updateGameOver: the state an
\* update handler requests of the scene manager (none of them calls changeState)
handlerRequest(current) == None

\* the states the game can be brought to from those of S, by the requests of
\* handleKeyDown and of the update handlers
RECURSIVE StatesWithin(_)
StatesWithin(S) ==
    LET more == ({requestedState(s, k) : s \in S, k \in Keys}
                     \cup {handlerRequest(s) : s \in S}) \ {None}
    IN  IF more \subseteq S THEN S ELSE StatesWithin(S \cup more)

\* src/src/game/main.py Game.updatePlaying: <<player, enemies, pass>> after the call
updatePlaying(p, es, keys) ==
    LET p1  == PlayerUpdate(p, keys)
        es1 == UpdateEnemies(es, p1.position)
        w   == checkCollisions(p1, es1)
    IN  <<w.player, w.enemies, PassRecord(p1, es1, w)>>

\* src/main.py Game.update in the PLAYING state: <<player, enemies, pass>> after the call
FlatUpdatePlaying(p, es, keys) ==
    LET p1  == PlayerUpdate(p, keys)
        es1 == UpdateEnemies(es, p1.position)
        w   == FlatCollisions(p1, es1)
    IN  <<w.player, RemoveDead(w.enemies), PassRecord(p1, es1, w)>>

(***************************************************************************)
(* SpriteAnimation, src/src/game/sprite_animation.py.  An image is known   *)
(* by the frame of the sheet it was cut from and by whether it has been    *)
(* flipped horizontally.                                                   *)
(***************************************************************************)
\* self.frames[k], as _extract_frames cuts it from the sheet
Frame(k) == [frame |-> k, mirrored |-> FALSE]

\* pygame.transform.flip(image, True, False)
flip(image) == [image EXCEPT !.mirrored = ~@]

\* SpriteAnimation.__init__
NewSpriteAnimation(frame_count, frame_duration) ==
    [frame_count    |-> frame_count,
     frame_duration |-> frame_duration,
     current_frame  |-> 0,
     frame_timer    |-> 0,
     is_playing     |-> TRUE,
     is_looping     |-> TRUE,
     image          |-> Frame(0),
     facing_right   |-> TRUE]

\* an update that never wraps and never holds the last frame
AdvanceNoWrap(a) == [a EXCEPT !.current_frame = @ + 1]

\* SpriteAnimation.update, from `self.current_frame += 1` on: the frame the
\* clip shows next and whether it goes on playing
Advance(a) ==
    IF a.current_frame + 1 >= a.frame_count
    THEN IF a.is_looping
         THEN [a EXCEPT !.current_frame = 0]
         ELSE [a EXCEPT !.current_frame = a.frame_count - 1, !.is_playing = FALSE]
    ELSE [a EXCEPT !.current_frame = @ + 1]

\* SpriteAnimation.update, lines 90-92: the image is taken from the frame list
\* again and flipped when the clip faces left
Refresh(a) ==
    [a EXCEPT !.image = IF a.facing_right THEN Frame(a.current_frame)
                        ELSE flip(Frame(a.current_frame))]

\* an update that goes on counting on a clip that is not playing
SpriteUpdateWhenStopped(a) ==
    IF a.frame_timer + 1 >= a.frame_duration
    THEN Refresh(Advance([a EXCEPT !.frame_timer = 0]))
    ELSE [a EXCEPT !.frame_timer = @ + 1]

\* SpriteAnimation.update
SpriteUpdate(a) ==
    IF ~a.is_playing THEN a
    ELSE IF a.frame_timer + 1 >= a.frame_duration
    THEN Refresh(Advance([a EXCEPT !.frame_timer = 0]))
    ELSE [a EXCEPT !.frame_timer = @ + 1]

\* SpriteAnimation.play(loop)
play(a, loop) ==
    [a EXCEPT !.is_playing = TRUE, !.is_looping = loop,
              !.current_frame = 0, !.frame_timer = 0]

\* SpriteAnimation.stop
stop(a) == [a EXCEPT !.is_playing = FALSE]

\* SpriteAnimation.pause
pause(a) == [a EXCEPT !.is_playing = FALSE]

\* SpriteAnimation.resume
resume(a) == [a EXCEPT !.is_playing = TRUE]

\* a set_facing that flips the image without comparing the facing
set_facingAlways(a, facing_right) ==
    [a EXCEPT !.facing_right = facing_right, !.image = flip(a.image)]

\* SpriteAnimation.set_facing(facing_right)
set_facing(a, facing_right) ==
    IF a.facing_right # facing_right
    THEN [a EXCEPT !.facing_right = facing_right, !.image = flip(a.image)]
    ELSE a

\* SpriteAnimation.get_current_frame
get_current_frame(a) == a.image

\* (frame_count, frame_duration) of the clips constructed: the smallest clip,
\* and the hurt, dash and idle clips of CharacterAnimation._setup_animations
ClipConfigs == {<<1, 1>>, <<2, 5>>, <<3, 4>>, <<4, 10>>}

(***************************************************************************)
(* CharacterAnimation, src/src/game/character_animation.py                 *)
(***************************************************************************)
\* class AnimationState
AnimationStates == {"idle", "swim", "attack", "hurt", "dash"}

\* animation_configs: (frame_count, frame_duration) of the clip of a state
AnimationConfig(state) ==
    CASE state = "idle"   -> <<4, 10>>
      [] state = "swim"   -> <<6, 6>>
      [] state = "attack" -> <<4, 5>>
      [] state = "hurt"   -> <<2, 5>>
      [] state = "dash"   -> <<3, 4>>

\* CharacterAnimation.__init__ and _setup_animations: a clip is bound to each
\* state whose sheet exists under base_path
NewCharacterAnimation(sheets) ==
    [animations    |-> [state \in sheets |->
                           NewSpriteAnimation(AnimationConfig(state)[1],
                                              AnimationConfig(state)[2])],
     current_state |-> "idle"]

\* `state in self.animations`
Bound(c, state) == state \in DOMAIN c.animations

\* CharacterAnimation.update
CharacterUpdate(c) ==
    IF Bound(c, c.current_state)
    THEN [c EXCEPT !.animations[c.current_state] = SpriteUpdate(@)]
    ELSE c

\* a change_state that restarts the clip of the state the character is in
change_stateSameState(c, new_state) ==
    IF Bound(c, new_state)
    THEN [c EXCEPT !.current_state = new_state,
                   !.animations[new_state] = play(@, TRUE)]
    ELSE c

\* CharacterAnimation.change_state(new_state)
change_state(c, new_state) ==
    IF Bound(c, new_state) /\ new_state # c.current_state
    THEN [c EXCEPT !.current_state = new_state,
                   !.animations[new_state] = play(@, TRUE)]
    ELSE c

\* a set_facing that turns the clip of the current state only
CharacterSetFacingCurrent(c, facing_right) ==
    IF Bound(c, c.current_state)
    THEN [c EXCEPT !.animations[c.current_state] = set_facing(@, facing_right)]
    ELSE c

\* CharacterAnimation.set_facing(facing_right)
CharacterSetFacing(c, facing_right) ==
    [c EXCEPT !.animations = [state \in DOMAIN @ |-> set_facing(@[state], facing_right)]]

\* the sets of sheets found under base_path
SheetSets == {{}, {"idle"}, {"idle", "hurt"}, {"hurt", "dash"}}

\* the animation objects of a run that exercises none of them
AnimationIdle ==
    /\ clip = NewSpriteAnimation(1, 1)
    /\ character = NewCharacterAnimation({})

(***************************************************************************)
(* Bounds and input alphabets                                              *)
(***************************************************************************)
MaxTicks == 5
IdleTicks == 999
DashTicks == 250
MaxLongTicks == 62
MaxBubbleUpdates == 61
MaxActorTicks == 3
MaxPlayerTicks == 3
MaxEnemyUpdates == 2
MaxVolleyTicks == 62
MaxApiCalls == 2
MaxLoopTicks == 2
MaxFireTicks == 22
MaxOxygenTicks == 5

\* key snapshots offered to a tick of the game
FlatKeySets ==
    {{"K_LEFT", "K_UP", "K_LSHIFT"}, {"K_LEFT", "K_LSHIFT"}, {"K_UP", "K_LSHIFT"},
     {"K_LEFT"}, {"K_LEFT", "K_SPACE"}}

\* key snapshots offered to Player.update called on its own
PlayerKeySets == {{}, {"K_LSHIFT"}, {"K_LEFT"}, {"K_RIGHT", "K_LSHIFT"}, {"K_SPACE"}}

\* key snapshots offered to Player.update beside an enemy
ActorKeySets == {{}, {"K_LEFT"}, {"K_RIGHT"}, {"K_UP"}, {"K_DOWN"}}

\* key snapshots offered over a long run: no key held
LongKeySets == {{}}

\* key snapshots offered to a player that fires
FireKeySets == {{}, {"K_SPACE"}}

\* key snapshots offered to a player that climbs to the jellyfish and fires to the right
PierceKeySets == {{"K_UP", "K_LSHIFT"}, {"K_LEFT", "K_LSHIFT"}, {"K_RIGHT", "K_SPACE"}}

\* amounts passed to takeDamage and heal
Amounts == {-200, -5, 10, 200}

\* the objects after n more PLAYING ticks of src/main.py with the same keys held
RECURSIVE FlatRun(_, _, _)
FlatRun(r, keys, n) ==
    IF n = 0 THEN r
    ELSE IF n = 1 THEN FlatUpdatePlaying(r[1], r[2], keys)
    ELSE CHOOSE out \in {FlatRun(half, keys, n - n \div 2) :
                             half \in {FlatRun(r, keys, n \div 2)}} : TRUE

\* the player after n more calls of Player.update with the same keys held
RECURSIVE PlayerRun(_, _, _)
PlayerRun(p, keys, n) ==
    IF n = 0 THEN p
    ELSE IF n = 1 THEN PlayerUpdate(p, keys)
    ELSE CHOOSE out \in {PlayerRun(half, keys, n - n \div 2) :
                             half \in {PlayerRun(p, keys, n \div 2)}} : TRUE

(***************************************************************************)
(* History                                                                 *)
(***************************************************************************)
NoCalls == [ticks |-> 0, enemyUpdates |-> 0, apiCalls |-> 0,
            bubbleUpdates |-> 0, bubbleReturn |-> TRUE, bubbleHit |-> FALSE,
            invincibleTicks |-> 0,
            requested |-> <<None, None>>, byKey |-> FALSE,
            fired |-> FALSE, sinceFire |-> -1, fireGap |-> 0,
            sincePlay |-> -1]

\* Player.handleInput created a bubble
Fired(p, keys) == Len(handleInput(p, keys).bubbles) > Len(p.bubbles)

\* history of the bubbles created: whether the last update created one, the
\* updates since the last creation (-1: none yet), and the updates between the
\* last two creations (0: fewer than two)
FireHistory(c, p, keys) ==
    IF Fired(p, keys)
    THEN [c EXCEPT !.fired = TRUE, !.sinceFire = 0,
                   !.fireGap = IF c.sinceFire < 0 THEN @ ELSE c.sinceFire + 1]
    ELSE [c EXCEPT !.fired = FALSE,
                   !.sinceFire = IF @ < 0 THEN @ ELSE @ + 1]

\* history of handleKeyDown: the pair (state, target) it requested last, and
\* whether the transition accepted last was requested by a key
KeyRequest(c, sm, target) ==
    [c EXCEPT !.requested = <<sm.currentState, target>>,
              !.byKey = IF sm.isTransitioning THEN @ ELSE TRUE]

\* position, velocity and rect of an actor
Motion(a) == [position |-> a.position, velocity |-> a.velocity, rect |-> a.rect]

\* the motion of the actors as constrainToScreen found it in their last update
NoClamp == [player |-> Motion(NewPlayer(SCREEN_WIDTH \div 2, SCREEN_HEIGHT \div 2)),
            enemy  |-> Motion(NewEnemy(0, 0, ENEMY_HP)),
            playerUpdated |-> FALSE, enemyUpdated |-> FALSE, enemyIndex |-> 0]

\* history of the request: accepted when no transition is pending, dropped otherwise
Request(sm, acc, target) ==
    IF sm.isTransitioning
    THEN [acc EXCEPT !.dropped = @ \cup {target}]
    ELSE [from |-> sm.currentState, to |-> target, dropped |-> {}, swapped |-> FALSE]

\* history of the transition: whether updateTransition has swapped the state yet
Swapped(sm, acc) ==
    [acc EXCEPT !.swapped = @ \/ (sm.nextState # None /\ sm.transitionAlpha >= ALPHA_MAX)]

\* ticks spent invincible, up to one past the bound of the long run
InvincibleTicksAfter(p, n) ==
    IF p.isInvincible THEN Min(n + 1, MaxLongTicks + 1) ELSE 0

(***************************************************************************)
(* Actions of the scene game, src/src/game/main.py                         *)
(***************************************************************************)
\* SceneManager.changeState called directly
ChangeState(newState) ==
    /\ sceneManager' = changeState(sceneManager, newState)
    /\ lastCall' = [op |-> "changeState", arg |-> newState]
    /\ accepted' = Request(sceneManager, accepted, newState)
    /\ calls' = [calls EXCEPT !.byKey = IF sceneManager.isTransitioning THEN @ ELSE FALSE]
    /\ UNCHANGED <<player, enemies, game, bubble, pass, clamp, screen,
                 clip, character>>

\* Game.handleKeyDown
HandleKeyDown(key) ==
    LET target == requestedState(sceneManager.currentState, key)
    IN  /\ sceneManager' = IF target = None THEN sceneManager
                           ELSE changeState(sceneManager, target)
        /\ lastCall' = IF target = None THEN [op |-> "handleKeyDown", arg |-> key]
                       ELSE [op |-> "changeState", arg |-> target]
        /\ accepted' = IF target = None THEN accepted
                       ELSE Request(sceneManager, accepted, target)
        /\ calls' = IF target = None THEN calls
                    ELSE KeyRequest(calls, sceneManager, target)
        /\ UNCHANGED <<player, enemies, game, bubble, pass, clamp, screen,
                 clip, character>>

\* a SceneManager.update that runs the update handler during a transition too
SceneManagerUpdateBoth(keys) ==
    /\ IF sceneManager.isTransitioning
       THEN /\ sceneManager' = updateTransition(sceneManager)
            /\ lastCall' = [op |-> "updateTransition", arg |-> None]
            /\ accepted' = Swapped(sceneManager, accepted)
       ELSE /\ UNCHANGED <<sceneManager, accepted>>
            /\ lastCall' = [op |-> "updateHandler", arg |-> sceneManager.currentState]
    /\ IF sceneManager.currentState = "PLAYING"
       THEN LET r == updatePlaying(player, enemies, keys)
            IN  player' = r[1] /\ enemies' = r[2] /\ pass' = r[3]
       ELSE UNCHANGED <<player, enemies, pass>>
    /\ UNCHANGED <<game, bubble, calls, clamp, screen, clip, character>>

\* SceneManager.update: a step of the transition, or the update handler of the state
SceneManagerUpdate(keys) ==
    /\ IF sceneManager.isTransitioning
       THEN /\ sceneManager' = updateTransition(sceneManager)
            /\ lastCall' = [op |-> "updateTransition", arg |-> None]
            /\ accepted' = Swapped(sceneManager, accepted)
            /\ UNCHANGED <<player, enemies, pass>>
       ELSE /\ UNCHANGED <<sceneManager, accepted>>
            /\ lastCall' = [op |-> "updateHandler", arg |-> sceneManager.currentState]
            /\ IF sceneManager.currentState = "PLAYING"
               THEN LET r == updatePlaying(player, enemies, keys)
                    IN  player' = r[1] /\ enemies' = r[2] /\ pass' = r[3]
               ELSE UNCHANGED <<player, enemies, pass>>
    /\ UNCHANGED <<game, bubble, calls, clamp, screen,
                 clip, character>>

(***************************************************************************)
(* Actions of the flat game, src/main.py                                   *)
(***************************************************************************)
\* Game.handleEvents, one KEYDOWN event
FlatHandleEvents(key) ==
    /\ game.isRunning
    /\ game' = handleEvents(game, key)
    /\ UNCHANGED <<sceneManager, lastCall, accepted, player, enemies, bubble, calls, pass, clamp, screen,
                 clip, character>>

\* Game.update
FlatUpdate(keys) ==
    /\ game.isRunning
    /\ IF game.gameState = "PLAYING"
       THEN /\ calls.ticks < MaxTicks
            /\ LET r == FlatUpdatePlaying(player, enemies, keys)
               IN  player' = r[1] /\ enemies' = r[2] /\ pass' = r[3]
            /\ calls' = [calls EXCEPT !.ticks = @ + 1]
       ELSE /\ pass' = NoPass
            /\ UNCHANGED <<player, enemies, calls>>
    /\ UNCHANGED <<sceneManager, lastCall, accepted, game, bubble, clamp, screen,
                 clip, character>>

\* Game.render
FlatRender ==
    /\ game.isRunning
    /\ screen' = render(game)
    /\ lastCall' = [op |-> "Game.render", arg |-> game.gameState]
    /\ UNCHANGED <<sceneManager, accepted, player, enemies, game, bubble, calls, pass, clamp,
                   clip, character>>

(***************************************************************************)
(* Actions on the objects called on their own                              *)
(***************************************************************************)
\* player.update() with the keys held
PlayerUpdateCall(keys, limit) ==
    /\ calls.ticks < limit
    /\ player' = PlayerUpdate(player, keys)
    /\ clamp' = [clamp EXCEPT !.player = Motion(PlayerBeforeClamp(player, keys)),
                              !.playerUpdated = TRUE]
    /\ lastCall' = [op |-> "Player.update", arg |-> keys]
    /\ calls' = [FireHistory(calls, player, keys)
                     EXCEPT !.ticks = @ + 1,
                            !.invincibleTicks = InvincibleTicksAfter(player, @)]
    /\ UNCHANGED <<sceneManager, accepted, enemies, game, bubble, pass, screen,
                 clip, character>>

\* player.takeDamage(amount)
TakeDamageCall(amount) ==
    /\ calls.apiCalls < MaxApiCalls
    /\ player' = takeDamage(player, amount)
    /\ lastCall' = [op |-> "Player.takeDamage", arg |-> amount]
    /\ calls' = [calls EXCEPT !.apiCalls = @ + 1]
    /\ UNCHANGED <<sceneManager, accepted, enemies, game, bubble, pass, clamp, screen,
                 clip, character>>

\* player.heal(amount)
HealCall(amount) ==
    /\ calls.apiCalls < MaxApiCalls
    /\ player' = heal(player, amount)
    /\ lastCall' = [op |-> "Player.heal", arg |-> amount]
    /\ calls' = [calls EXCEPT !.apiCalls = @ + 1]
    /\ UNCHANGED <<sceneManager, accepted, enemies, game, bubble, pass, clamp, screen,
                 clip, character>>

\* enemies[j].update(player.position)
EnemyUpdateCall(j) ==
    /\ calls.enemyUpdates < MaxEnemyUpdates
    /\ enemies' = [enemies EXCEPT ![j] = EnemyUpdate(@, player.position)]
    /\ clamp' = IF enemies[j].isAlive
                THEN [clamp EXCEPT !.enemy = Motion(EnemyBeforeClamp(enemies[j], player.position)),
                                   !.enemyUpdated = TRUE, !.enemyIndex = j]
                ELSE clamp
    /\ lastCall' = [op |-> "Enemy.update", arg |-> j]
    /\ calls' = [calls EXCEPT !.enemyUpdates = @ + 1]
    /\ UNCHANGED <<sceneManager, accepted, player, game, bubble, pass, screen,
                 clip, character>>

\* enemies[j].takeDamage(damage)
EnemyTakeDamageCall(j, damage) ==
    /\ calls.apiCalls < MaxApiCalls
    /\ enemies' = [enemies EXCEPT ![j] = EnemyTakeDamage(@, damage)]
    /\ lastCall' = [op |-> "Enemy.takeDamage", arg |-> <<j, damage>>]
    /\ calls' = [calls EXCEPT !.apiCalls = @ + 1]
    /\ UNCHANGED <<sceneManager, accepted, player, game, bubble, pass, clamp, screen,
                   clip, character>>

\* player.bubbles[i].hit(), as the collision check of the game calls it; one
\* bubble is hit in a run
PlayerBubbleHitCall(i) ==
    /\ ~calls.bubbleHit
    /\ player' = [player EXCEPT !.bubbles[i] = BubbleHit(@)]
    /\ lastCall' = [op |-> "Bubble.hit", arg |-> i]
    /\ calls' = [calls EXCEPT !.bubbleHit = TRUE]
    /\ UNCHANGED <<sceneManager, accepted, enemies, game, bubble, pass, clamp, screen,
                   clip, character>>

\* bubble.update()
BubbleUpdateCall ==
    /\ calls.bubbleUpdates < MaxBubbleUpdates
    /\ bubble' = BubbleUpdate(bubble)
    /\ lastCall' = [op |-> "Bubble.update", arg |-> None]
    /\ calls' = [calls EXCEPT !.bubbleUpdates = @ + 1,
                              !.bubbleReturn = BubbleUpdateReturn(bubble)]
    /\ UNCHANGED <<sceneManager, accepted, player, enemies, game, pass, clamp, screen,
                 clip, character>>

\* bubble.hit()
BubbleHitCall ==
    /\ bubble' = BubbleHit(bubble)
    /\ lastCall' = [op |-> "Bubble.hit", arg |-> None]
    /\ calls' = [calls EXCEPT !.bubbleHit = TRUE]
    /\ UNCHANGED <<sceneManager, accepted, player, enemies, game, pass, clamp, screen,
                 clip, character>>

(***************************************************************************)
(* Actions on the animation objects                                        *)
(***************************************************************************)
\* history of a one-shot play: the update() calls made on the clip since the
\* last play(loop=False), counted up to one past its n*d updates; -1 when there
\* was none, or when play(loop=True), stop, pause or resume came after it
ClipHistory(c, a, op, loop) ==
    [c EXCEPT !.sincePlay =
        CASE op = "play" /\ ~loop -> 0
          [] op = "update" /\ @ >= 0 ->
                 Min(@ + 1, a.frame_count * a.frame_duration + 1)
          [] op = "update" \/ op = "set_facing" -> @
          [] OTHER -> -1]

\* clip.update()
SpriteUpdateCall ==
    /\ clip' = SpriteUpdate(clip)
    /\ lastCall' = [op |-> "SpriteAnimation.update", arg |-> None]
    /\ calls' = ClipHistory(calls, clip, "update", TRUE)
    /\ UNCHANGED <<sceneManager, accepted, player, enemies, game, bubble, pass, clamp,
                   screen, character>>

\* clip.play(loop)
PlayCall(loop) ==
    /\ clip' = play(clip, loop)
    /\ lastCall' = [op |-> "SpriteAnimation.play", arg |-> loop]
    /\ calls' = ClipHistory(calls, clip, "play", loop)
    /\ UNCHANGED <<sceneManager, accepted, player, enemies, game, bubble, pass, clamp,
                   screen, character>>

\* clip.stop()
StopCall ==
    /\ clip' = stop(clip)
    /\ lastCall' = [op |-> "SpriteAnimation.stop", arg |-> None]
    /\ calls' = ClipHistory(calls, clip, "stop", TRUE)
    /\ UNCHANGED <<sceneManager, accepted, player, enemies, game, bubble, pass, clamp,
                   screen, character>>

\* clip.pause()
PauseCall ==
    /\ clip' = pause(clip)
    /\ lastCall' = [op |-> "SpriteAnimation.pause", arg |-> None]
    /\ calls' = ClipHistory(calls, clip, "pause", TRUE)
    /\ UNCHANGED <<sceneManager, accepted, player, enemies, game, bubble, pass, clamp,
                   screen, character>>

\* clip.resume()
ResumeCall ==
    /\ clip' = resume(clip)
    /\ lastCall' = [op |-> "SpriteAnimation.resume", arg |-> None]
    /\ calls' = ClipHistory(calls, clip, "resume", TRUE)
    /\ UNCHANGED <<sceneManager, accepted, player, enemies, game, bubble, pass, clamp,
                   screen, character>>

\* clip.set_facing(facing_right)
SetFacingCall(facing_right) ==
    /\ clip' = set_facing(clip, facing_right)
    /\ lastCall' = [op |-> "SpriteAnimation.set_facing", arg |-> facing_right]
    /\ calls' = ClipHistory(calls, clip, "set_facing", TRUE)
    /\ UNCHANGED <<sceneManager, accepted, player, enemies, game, bubble, pass, clamp,
                   screen, character>>

\* character.update()
CharacterUpdateCall ==
    /\ character' = CharacterUpdate(character)
    /\ lastCall' = [op |-> "CharacterAnimation.update", arg |-> None]
    /\ UNCHANGED <<sceneManager, accepted, player, enemies, game, bubble, calls, pass, clamp,
                   screen, clip>>

\* character.change_state(new_state)
ChangeStateCall(new_state) ==
    /\ character' = change_state(character, new_state)
    /\ lastCall' = [op |-> "CharacterAnimation.change_state", arg |-> new_state]
    /\ UNCHANGED <<sceneManager, accepted, player, enemies, game, bubble, calls, pass, clamp,
                   screen, clip>>

\* character.set_facing(facing_right)
CharacterSetFacingCall(facing_right) ==
    /\ character' = CharacterSetFacing(character, facing_right)
    /\ lastCall' = [op |-> "CharacterAnimation.set_facing", arg |-> facing_right]
    /\ UNCHANGED <<sceneManager, accepted, player, enemies, game, bubble, calls, pass, clamp,
                   screen, clip>>

(***************************************************************************)
(* Specifications                                                          *)
(***************************************************************************)
SceneInit ==
    /\ sceneManager = SceneManagerInit
    /\ lastCall = [op |-> "init", arg |-> None]
    /\ accepted = [from |-> None, to |-> None, dropped |-> {}, swapped |-> FALSE]

IdleInit ==
    /\ game = FlatGameInit
    /\ bubble = NewBubble(0, 0, 1, 0)
    /\ calls = NoCalls
    /\ pass = NoPass
    /\ clamp = NoClamp
    /\ screen = << >>
    /\ AnimationIdle

\* src/src/game/main.py: Game.__init__ and the run loop, with direct changeState calls
SceneGameInit ==
    /\ SceneInit
    /\ IdleInit
    /\ player = NewPlayer(SCREEN_WIDTH \div 2, SCREEN_HEIGHT \div 2)
    /\ enemies = <<NewJellyfish(200, 200), NewJellyfish(600, 400)>>

SceneNext ==
    \/ \E s \in GameStates : ChangeState(s)
    \/ \E k \in Keys : HandleKeyDown(k)
    \/ \E keys \in FlatKeySets : SceneManagerUpdate(keys)

SceneSpec == SceneGameInit /\ [][SceneNext]_vars

\* src/src/game/main.py: the game driven by key presses and ticks alone
SceneKeyNext ==
    \/ \E k \in Keys : HandleKeyDown(k)
    \/ \E keys \in FlatKeySets : SceneManagerUpdate(keys)

SceneKeySpec == SceneGameInit /\ [][SceneKeyNext]_vars

\* the run loop calls sceneManager.update() in every iteration
FairSceneSpec == SceneSpec /\ WF_vars(\E keys \in FlatKeySets : SceneManagerUpdate(keys))

\* src/main.py Game.__init__: <<player, enemies, pass>>
FlatConstructed ==
    <<NewPlayer(SCREEN_WIDTH \div 2, SCREEN_HEIGHT \div 2),
      <<NewJellyfish(100, 100), NewJellyfish(700, 100)>>, NoPass>>

\* the game left in PLAYING with no key held for IdleTicks ticks
FlatIdled == FlatRun(FlatConstructed, {}, IdleTicks)

\* src/main.py: the game as constructed, or the game left idle in PLAYING (the
\* oxygen gauge is then all but empty)
FlatGameInitial ==
    /\ SceneInit
    /\ bubble = NewBubble(0, 0, 1, 0)
    /\ calls = NoCalls
    /\ clamp = NoClamp
    /\ screen = << >>
    /\ AnimationIdle
    /\ \/ /\ game = FlatGameInit
          /\ player = FlatConstructed[1]
          /\ enemies = FlatConstructed[2]
          /\ pass = NoPass
       \/ /\ game = [FlatGameInit EXCEPT !.gameState = "PLAYING"]
          /\ player = FlatIdled[1]
          /\ enemies = FlatIdled[2]
          /\ pass = FlatIdled[3]

FlatNext ==
    \/ \E k \in Keys : FlatHandleEvents(k)
    \/ \E keys \in FlatKeySets : FlatUpdate(keys)

FlatGameSpec == FlatGameInitial /\ [][FlatNext]_vars

\* src/main.py: the game played by a player that fires at the two jellyfish
FlatPierceNext ==
    \/ \E k \in Keys : FlatHandleEvents(k)
    \/ \E keys \in PierceKeySets : FlatUpdate(keys)

FlatPierceSpec == FlatGameInitial /\ [][FlatPierceNext]_vars

\* src/main.py Game.run: events, update and render, over a few PLAYING ticks
FlatLoopNext ==
    \/ \E k \in Keys : FlatHandleEvents(k)
    \/ \E keys \in FlatKeySets : calls.ticks < MaxLoopTicks /\ FlatUpdate(keys)
    \/ FlatRender

FlatLoopSpec == FlatGameInitial /\ [][FlatLoopNext]_vars

\* the player that held the dash key alone for DashTicks ticks (stamina is down to DASH_COST)
DashedOut == PlayerRun(NewPlayer(SCREEN_WIDTH \div 2, SCREEN_HEIGHT \div 2), {"K_LSHIFT"}, DashTicks)

\* Player on its own: update, takeDamage and heal called in any order
PlayerInit ==
    /\ SceneInit
    /\ IdleInit
    /\ enemies = << >>
    /\ player \in {NewPlayer(SCREEN_WIDTH \div 2, SCREEN_HEIGHT \div 2), DashedOut}

PlayerNext ==
    \/ \E keys \in PlayerKeySets : PlayerUpdateCall(keys, MaxPlayerTicks)
    \/ \E a \in Amounts : TakeDamageCall(a)
    \/ \E a \in Amounts : HealCall(a)

PlayerSpec == PlayerInit /\ [][PlayerNext]_vars

\* Player over a long run: update many times, takeDamage by an enemy's damage
LongNext ==
    \/ \E keys \in LongKeySets : PlayerUpdateCall(keys, MaxLongTicks)
    \/ TakeDamageCall(ENEMY_DAMAGE)

LongInit ==
    /\ SceneInit
    /\ IdleInit
    /\ enemies = << >>
    /\ player = NewPlayer(SCREEN_WIDTH \div 2, SCREEN_HEIGHT \div 2)

LongSpec == LongInit /\ [][LongNext]_vars

\* a player left idle until the oxygen is all but gone: 0.1, 0.2 or 0.3 is left
OxygenInit ==
    /\ SceneInit
    /\ IdleInit
    /\ enemies = << >>
    /\ \E early \in 0..2 :
           player = PlayerRun(NewPlayer(SCREEN_WIDTH \div 2, SCREEN_HEIGHT \div 2),
                              {}, IdleTicks - early)

\* the player over more ticks than the oxygen lasts, damaged and healed meanwhile
OxygenNext ==
    \/ \E keys \in LongKeySets : PlayerUpdateCall(keys, MaxOxygenTicks)
    \/ TakeDamageCall(ENEMY_DAMAGE)
    \/ HealCall(ENEMY_DAMAGE)

\* Game.run calls update in every iteration of the loop
OxygenSpec ==
    OxygenInit /\ [][OxygenNext]_vars
        /\ WF_vars(\E keys \in LongKeySets : PlayerUpdateCall(keys, MaxOxygenTicks))

\* Player firing: update over more ticks than the cooldown lasts
FireNext == \E keys \in FireKeySets : PlayerUpdateCall(keys, MaxFireTicks)

FireSpec == LongInit /\ [][FireNext]_vars

\* a player at the left edge that fires to the right, so that a bubble lives out
\* its lifetime on the screen, over more ticks than the lifetime; bubbles are
\* hit meanwhile
VolleyInit ==
    /\ SceneInit
    /\ IdleInit
    /\ enemies = << >>
    /\ player = NewPlayer(PLAYER_SIZE \div 2, SCREEN_HEIGHT \div 2)

VolleyNext ==
    \/ \E keys \in FireKeySets : PlayerUpdateCall(keys, MaxVolleyTicks)
    \/ \E i \in 1..Len(player.bubbles) : PlayerBubbleHitCall(i)

VolleySpec == VolleyInit /\ [][VolleyNext]_vars

\* a player in a corner of the screen beside an enemy: Player(x, y), Enemy(x, y), Jellyfish(x, y)
ActorInit ==
    /\ SceneInit
    /\ IdleInit
    /\ \/ /\ player = NewPlayer(PLAYER_SIZE \div 2, PLAYER_SIZE \div 2)
          /\ enemies \in {<<NewEnemy(1, 0, ENEMY_HP)>>, <<NewJellyfish(1, 0)>>}
       \/ /\ player = NewPlayer(SCREEN_WIDTH - PLAYER_SIZE \div 2, SCREEN_HEIGHT - PLAYER_SIZE \div 2)
          /\ enemies \in {<<NewEnemy(SCREEN_WIDTH - ENEMY_SIZE + 4, SCREEN_HEIGHT - ENEMY_SIZE, ENEMY_HP)>>,
                          <<NewJellyfish(SCREEN_WIDTH - ENEMY_SIZE - 1, SCREEN_HEIGHT - ENEMY_SIZE)>>}

ActorNext ==
    \/ \E keys \in ActorKeySets : PlayerUpdateCall(keys, MaxActorTicks)
    \/ \E j \in 1..Len(enemies) : EnemyUpdateCall(j)

ActorSpec == ActorInit /\ [][ActorNext]_vars

\* damage amounts passed to Enemy.takeDamage: none, part of the hp, all of it, more
EnemyDamages == {0, 3, 5, 10, 200}

\* an Enemy and a Jellyfish as constructed, updated and damaged on their own
EnemyInit ==
    /\ SceneInit
    /\ IdleInit
    /\ player = NewPlayer(SCREEN_WIDTH \div 2, SCREEN_HEIGHT \div 2)
    /\ enemies = <<NewEnemy(100, 100, ENEMY_HP), NewJellyfish(700, 100)>>

EnemyNext ==
    \/ \E j \in 1..Len(enemies) : EnemyUpdateCall(j)
    \/ \E j \in 1..Len(enemies) : \E damage \in EnemyDamages : EnemyTakeDamageCall(j, damage)

EnemySpec == EnemyInit /\ [][EnemyNext]_vars

\* a bubble on its own, created where Player.shootBubble can create one
BubbleStartX == {4, 300, 500, 796}
BubbleStartY == {24, 300}

BubbleInit ==
    /\ SceneInit
    /\ game = FlatGameInit
    /\ calls = NoCalls
    /\ pass = NoPass
    /\ clamp = NoClamp
    /\ screen = << >>
    /\ AnimationIdle
    /\ player = NewPlayer(SCREEN_WIDTH \div 2, SCREEN_HEIGHT \div 2)
    /\ enemies = << >>
    /\ \E x \in BubbleStartX, y \in BubbleStartY, d \in {-1, 1} :
           bubble = NewBubble(x, y, d, 10)

BubbleNext == BubbleUpdateCall \/ BubbleHitCall

BubbleSpec == BubbleInit /\ [][BubbleNext]_vars

(***************************************************************************)
(* Collision ordering and dead-enemy removal (flat game)                   *)
(***************************************************************************)
PassBubbles == 1..Len(pass.player.bubbles)
PassEnemies == 1..Len(pass.enemies)

\* bubble i overlaps living jellyfish j, which overlaps the vulnerable player
SimultaneousOverlap(i, j) ==
    /\ pass.ran
    /\ pass.enemies[j].kind = "jellyfish"
    /\ pass.enemies[j].isAlive
    /\ BubbleHitsEnemy(pass.player.bubbles[i], pass.enemies[j])
    /\ PlayerTouchesEnemy(pass.player, pass.enemies[j])
    /\ ~pass.player.isInvincible

\* C3: in a tick where a bubble overlaps a living jellyfish that overlaps the
\* vulnerable player, the jellyfish loses the bubble's power and the player loses
\* the jellyfish's damage in that same tick.
C3_BothEffectsSameTick ==
    \A i \in PassBubbles : \A j \in PassEnemies :
        SimultaneousOverlap(i, j) =>
            /\ pass.after[j].hp <= Max(0, pass.enemies[j].hp - pass.player.bubbles[i].power)
            /\ player.hp = Max(0, pass.player.hp - pass.enemies[j].damage)

\* C4: an enemy that dies in the collision pass stays collidable for the rest of
\* the pass (every overlap with an enemy alive at the start of the pass
\* registers) and is gone from the collection when the tick ends.
C4_DeadEnemyStaysCollidable ==
    pass.ran =>
        /\ \A j \in PassEnemies :
              pass.enemies[j].isAlive =>
                  /\ \A i \in PassBubbles :
                        BubbleHitsEnemy(pass.player.bubbles[i], pass.enemies[j])
                            => <<i, j>> \in pass.hits
                  /\ PlayerTouchesEnemy(pass.player, pass.enemies[j]) => j \in pass.contacts
        /\ enemies = SelectSeq(pass.after, LAMBDA e : e.hp > 0)

\* C5: the gauges of the player stay in range in every state of the game.
C5_GaugesInRange ==
    /\ 0 <= player.hp /\ player.hp <= player.maxHp
    /\ 0 <= player.stamina /\ player.stamina <= player.maxStamina
    /\ 0 <= player.oxygen /\ player.oxygen <= player.maxOxygen

\* contact damage was taken with the oxygen gauge empty and stamina spent on a dash
C5_Witness ==
    /\ pass.ran /\ pass.contacts # {}
    /\ player.hp < player.maxHp
    /\ player.oxygen = 0
    /\ player.stamina < player.maxStamina

(***************************************************************************)
(* Scene transitions                                                       *)
(***************************************************************************)
\* the transition to t has completed
Completed(t) ==
    /\ sceneManager.currentState = t
    /\ sceneManager.transitionAlpha = 0
    /\ ~sceneManager.isTransitioning
    /\ sceneManager.nextState = None

\* an update of a transition that has swapped the state lowers the alpha by TRANSITION_SPEED
RampsDown ==
    (/\ accepted.swapped
     /\ sceneManager.isTransitioning
     /\ lastCall'.op = "updateTransition")
        => sceneManager'.transitionAlpha
               = Max(0, sceneManager.transitionAlpha - TRANSITION_SPEED)

\* C1: once the state is swapped the alpha ramps down by TRANSITION_SPEED in every
\* update, and every accepted transition to t leads to currentState = t,
\* transitionAlpha = 0, isTransitioning = FALSE and nextState cleared.
C1_TransitionCompletes ==
    /\ [][RampsDown]_vars
    /\ \A t \in GameStates :
           (sceneManager.isTransitioning /\ sceneManager.nextState = t) ~> Completed(t)

\* C2: a changeState call made while a transition is pending leaves the scene
\* manager as it was, and currentState only ever changes to the target of the
\* accepted request, never to a dropped one.
C2_RequestDroppedMidTransition ==
    [][/\ (sceneManager.isTransitioning /\ lastCall'.op = "changeState")
              => sceneManager' = sceneManager
       /\ sceneManager'.currentState # sceneManager.currentState
              => (/\ sceneManager'.currentState = accepted.to
                  /\ sceneManager'.currentState \notin accepted.dropped \ {accepted.to})]_vars

\* Title -> Playing was accepted, Paused was requested meanwhile, and the swap went to Playing
C2_Witness ==
    /\ accepted.from = "TITLE" /\ accepted.to = "PLAYING"
    /\ "PAUSED" \in accepted.dropped
    /\ accepted.swapped
    /\ sceneManager.currentState = "PLAYING"

(***************************************************************************)
(* Player: invincibility, saturation, dash                                 *)
(***************************************************************************)
\* the duration the specification recommends for the invincibility
INVINCIBILITY_TICKS == 60

\* C6: the invincibility set by takeDamage is over after INVINCIBILITY_TICKS
\* calls of Player.update.
C6_InvincibilityExpires ==
    player.isInvincible => calls.invincibleTicks <= INVINCIBILITY_TICKS

\* C7: after takeDamage(amount) or heal(amount), for any integer amount,
\* 0 <= hp <= maxHp.
C7_HpSaturates ==
    lastCall.op \in {"Player.takeDamage", "Player.heal"}
        => (0 <= player.hp /\ player.hp <= player.maxHp)

\* C9: in every call of Player.update, isDashing comes out true exactly when the
\* dash key is held and stamina >= DASH_COST at the start of the tick; when the
\* key is held with less stamina, isDashing is false and no stamina is drained.
C9_DashNeedsStamina ==
    [][lastCall'.op = "Player.update" =>
          LET held == "K_LSHIFT" \in lastCall'.arg
          IN  /\ player'.isDashing <=> (held /\ player.stamina >= DASH_COST)
              /\ (held /\ player.stamina < DASH_COST)
                     => (/\ ~player'.isDashing
                         /\ player'.stamina >= player.stamina
                         /\ handleInput(player, lastCall'.arg).stamina = player.stamina)]_vars

\* the dash key was held in the last update and the dash was refused
C9_Witness ==
    /\ lastCall.op = "Player.update"
    /\ "K_LSHIFT" \in lastCall.arg
    /\ ~player.isDashing
    /\ player.stamina < player.maxStamina

(***************************************************************************)
(* Bubble lifetime                                                         *)
(***************************************************************************)
\* C8: a bubble that was never hit and never left the screen is active after
\* each of its first BUBBLE_LIFETIME - 1 updates, and its update number
\* BUBBLE_LIFETIME returns False and leaves it inactive.
C8_BubbleLifetime ==
    (~calls.bubbleHit /\ ~BubbleOffScreen(bubble.rect)) =>
        /\ calls.bubbleUpdates < BUBBLE_LIFETIME => (bubble.isActive /\ calls.bubbleReturn)
        /\ calls.bubbleUpdates = BUBBLE_LIFETIME => (~bubble.isActive /\ ~calls.bubbleReturn)

\* a bubble on the screen, never hit, that its update number BUBBLE_LIFETIME ended
C8_Witness ==
    /\ ~calls.bubbleHit /\ ~BubbleOffScreen(bubble.rect)
    /\ calls.bubbleUpdates = BUBBLE_LIFETIME
    /\ ~bubble.isActive /\ ~calls.bubbleReturn

(***************************************************************************)
(* Screen clamp                                                            *)
(***************************************************************************)
\* the enemy that was last updated alive
ClampedEnemy == enemies[clamp.enemyIndex]

\* the rect found by constrainToScreen was over an edge of the screen, on one axis
OverLow(r) == r < 0
OverHigh(r, size, limit) == r + size > limit

\* one axis of the player after a clamp: at the edge, position with it, velocity zero
PlayerAtEdge(before, r, pos, vel, limit) ==
    /\ OverLow(before) => (r = 0 /\ pos = 0 /\ vel = 0)
    /\ (~OverLow(before) /\ OverHigh(before, PLAYER_SIZE, limit))
           => (r = limit - PLAYER_SIZE /\ pos = r * PosScale /\ vel = 0)

\* one axis of the enemy after a clamp: at the edge, position with it
EnemyAtEdge(before, r, pos, limit) ==
    /\ OverLow(before) => (r = 0 /\ pos = 0)
    /\ (~OverLow(before) /\ OverHigh(before, ENEMY_SIZE, limit))
           => (r = limit - ENEMY_SIZE /\ pos = r * PosScale)

\* C10: a player whose update drives its rect over an edge of the screen
\* (position.x <= -1 pixel for the left edge) ends the update with the rect at
\* that edge and no velocity on that axis; an enemy in the same situation ends
\* with the rect at the edge and the velocity it had before the clamp.
C10_ClampAsymmetry ==
    /\ clamp.playerUpdated =>
           /\ PlayerAtEdge(clamp.player.rect.x, player.rect.x, player.position.x,
                           player.velocity.x, SCREEN_WIDTH)
           /\ PlayerAtEdge(clamp.player.rect.y, player.rect.y, player.position.y,
                           player.velocity.y, SCREEN_HEIGHT)
    /\ clamp.enemyUpdated =>
           /\ EnemyAtEdge(clamp.enemy.rect.x, ClampedEnemy.rect.x,
                          ClampedEnemy.position.x, SCREEN_WIDTH)
           /\ EnemyAtEdge(clamp.enemy.rect.y, ClampedEnemy.rect.y,
                          ClampedEnemy.position.y, SCREEN_HEIGHT)
           /\ ClampedEnemy.velocity = clamp.enemy.velocity

\* the player was clamped at the left edge while it moved left and lost its
\* velocity; the enemy was clamped at an edge and kept its velocity
C10_Witness ==
    /\ clamp.playerUpdated /\ clamp.enemyUpdated
    /\ OverLow(clamp.player.rect.x)
    /\ clamp.player.velocity.x < 0
    /\ player.velocity.x = 0 /\ player.rect.x = 0
    /\ OverLow(clamp.enemy.rect.x) \/ OverLow(clamp.enemy.rect.y)
    /\ ClampedEnemy.velocity = clamp.enemy.velocity
    /\ ClampedEnemy.velocity # Vec(0, 0)

\* C10 as stated: a player driven to position.x < 0 ends the update with
\* rect.left = 0 and velocity.x = 0, an enemy with rect.left = 0 and its velocity.
C10_ClampOnNegativePosition ==
    /\ (clamp.playerUpdated /\ clamp.player.position.x < 0)
           => (player.rect.x = 0 /\ player.velocity.x = 0)
    /\ (clamp.enemyUpdated /\ clamp.enemy.position.x < 0)
           => (ClampedEnemy.rect.x = 0 /\ ClampedEnemy.velocity = clamp.enemy.velocity)

(***************************************************************************)
(* Pause                                                                   *)
(***************************************************************************)
\* the sequence s holds the layers of seq, in order and side by side
DrawsScene(s, seq) ==
    \E k \in 0..(Len(s) - Len(seq)) : SubSeq(s, k + 1, k + Len(seq)) = seq

\* C11: while the state is not PLAYING no step changes a field of the player, of
\* an enemy or of a bubble, and a render in PAUSED draws the PLAYING scene.
C11_FrozenFramePause ==
    /\ [][game.gameState # "PLAYING" => UNCHANGED <<player, enemies>>]_vars
    /\ []((lastCall.op = "Game.render" /\ lastCall.arg = "PAUSED")
              => DrawsScene(screen, PlayingScene))

(***************************************************************************)
(* State graph                                                             *)
(***************************************************************************)
\* the edges of the state graph as the specification gives them
StateGraph ==
    {<<"TITLE", "PLAYING">>, <<"PLAYING", "PAUSED">>, <<"PAUSED", "PLAYING">>,
     <<"PLAYING", "GAME_OVER">>, <<"GAME_OVER", "TITLE">>}

\* the edge handleKeyDown requests for K_q in PAUSED
PauseQuitEdge == <<"PAUSED", "TITLE">>

\* handleKeyDown has requested a transition
KeyRequested == calls.requested[2] # None

\* currentState changes in this step, in a transition a key requested
KeySwap == calls.byKey /\ sceneManager'.currentState # sceneManager.currentState

\* C12: every (state, target) that handleKeyDown requests is an edge of the state
\* graph or the edge Paused -> Title, and currentState changes, in a transition
\* requested by a key, along such an edge only.
C12_KeyRequestsFollowGraph ==
    /\ [](KeyRequested => calls.requested \in StateGraph \cup {PauseQuitEdge})
    /\ [][KeySwap => <<sceneManager.currentState, sceneManager'.currentState>>
                         \in StateGraph \cup {PauseQuitEdge}]_vars

\* K_q was pressed while the state was PAUSED: the title was requested
C12_Witness ==
    /\ calls.requested = PauseQuitEdge
    /\ sceneManager.currentState = "PAUSED"

\* C12 as stated: every (state, target) that handleKeyDown requests is an edge of
\* Title -> Playing, Playing -> Paused, Paused -> Playing, Playing -> GameOver,
\* GameOver -> Title, and currentState changes along these edges only.
C12_KeyRequestsInSpecGraph ==
    /\ [](KeyRequested => calls.requested \in StateGraph)
    /\ [][KeySwap => <<sceneManager.currentState, sceneManager'.currentState>>
                         \in StateGraph]_vars

(***************************************************************************)
(* Scene-state invariant                                                   *)
(***************************************************************************)
\* C13: nextState is set exactly while isTransitioning, transitionAlpha is in
\* 0..255, and transitionAlpha is 0 whenever no transition is pending.
C13_SceneInvariant ==
    /\ (sceneManager.nextState # None) <=> sceneManager.isTransitioning
    /\ sceneManager.nextState \in GameStates \cup {None}
    /\ 0 <= sceneManager.transitionAlpha /\ sceneManager.transitionAlpha <= ALPHA_MAX
    /\ ~sceneManager.isTransitioning => sceneManager.transitionAlpha = 0

\* a transition has been accepted, has brought the alpha to 255 and has swapped the state
C13_Witness ==
    /\ sceneManager.isTransitioning
    /\ sceneManager.nextState = "PAUSED"
    /\ sceneManager.currentState = "PAUSED"
    /\ accepted.swapped
    /\ sceneManager.transitionAlpha = ALPHA_MAX

(***************************************************************************)
(* Fire cooldown                                                           *)
(***************************************************************************)
\* a bubble created in the update just made is in the collection, one update old
NewBorn(p) ==
    \E i \in 1..Len(p.bubbles) : p.bubbles[i].lifetime = BUBBLE_LIFETIME - 1

\* C14: an update creates a bubble only with the fire key held and the cooldown
\* at 0 or less when its input handling starts, and the input handling sets the
\* cooldown to BUBBLE_COOLDOWN; the cooldown stays in 0..BUBBLE_COOLDOWN; two
\* consecutive creations are at least BUBBLE_COOLDOWN updates apart.
C14_FireCooldown ==
    /\ [][(lastCall'.op = "Player.update" /\ (calls'.fired \/ NewBorn(player')))
              => (/\ "K_SPACE" \in lastCall'.arg
                  /\ player.currentBubbleCooldown <= 0
                  /\ handleInput(player, lastCall'.arg).currentBubbleCooldown
                         = BUBBLE_COOLDOWN
                  /\ player'.currentBubbleCooldown = BUBBLE_COOLDOWN - 1)]_vars
    /\ [](/\ 0 <= player.currentBubbleCooldown
          /\ player.currentBubbleCooldown <= BUBBLE_COOLDOWN)
    /\ [](calls.fireGap # 0 => calls.fireGap >= BUBBLE_COOLDOWN)

\* a second bubble was created as soon as the cooldown allowed
C14_Witness ==
    /\ calls.fired
    /\ calls.fireGap = BUBBLE_COOLDOWN
    /\ Len(player.bubbles) = 2

(***************************************************************************)
(* Player.takeDamage                                                       *)
(***************************************************************************)
\* C15: takeDamage(amount) changes nothing while isInvincible; otherwise, for
\* amount >= 0, it sets hp to max(0, hp - amount) and isInvincible to true, and
\* nothing else.
C15_TakeDamageFrame ==
    [][lastCall'.op = "Player.takeDamage" =>
          LET amount == lastCall'.arg
          IN  IF player.isInvincible THEN player' = player
              ELSE amount >= 0 =>
                       player' = [player EXCEPT
                                     !.hp = IF player.hp - amount > 0
                                            THEN player.hp - amount ELSE 0,
                                     !.isInvincible = TRUE]]_vars

\* takeDamage(10) took 10 points, and takeDamage(200) on the invincible player took none
C15_Witness ==
    /\ lastCall = [op |-> "Player.takeDamage", arg |-> 200]
    /\ player.isInvincible
    /\ player.hp = player.maxHp - 10

\* a SpriteAnimation as constructed, then any calls of its methods
SpriteInit ==
    /\ SceneInit
    /\ player = NewPlayer(SCREEN_WIDTH \div 2, SCREEN_HEIGHT \div 2)
    /\ enemies = << >>
    /\ game = FlatGameInit
    /\ bubble = NewBubble(0, 0, 1, 0)
    /\ calls = NoCalls
    /\ pass = NoPass
    /\ clamp = NoClamp
    /\ screen = << >>
    /\ character = NewCharacterAnimation({})
    /\ \E cfg \in ClipConfigs : clip = NewSpriteAnimation(cfg[1], cfg[2])

SpriteNext ==
    \/ SpriteUpdateCall
    \/ \E loop \in BOOLEAN : PlayCall(loop)
    \/ StopCall
    \/ PauseCall
    \/ ResumeCall
    \/ \E facing_right \in BOOLEAN : SetFacingCall(facing_right)

SpriteSpec == SpriteInit /\ [][SpriteNext]_vars

\* a CharacterAnimation as constructed over the sheets found, then any calls
CharacterInit ==
    /\ SceneInit
    /\ player = NewPlayer(SCREEN_WIDTH \div 2, SCREEN_HEIGHT \div 2)
    /\ enemies = << >>
    /\ game = FlatGameInit
    /\ bubble = NewBubble(0, 0, 1, 0)
    /\ calls = NoCalls
    /\ pass = NoPass
    /\ clamp = NoClamp
    /\ screen = << >>
    /\ clip = NewSpriteAnimation(1, 1)
    /\ \E sheets \in SheetSets : character = NewCharacterAnimation(sheets)

CharacterNext ==
    \/ CharacterUpdateCall
    \/ \E new_state \in AnimationStates : ChangeStateCall(new_state)
    \/ \E facing_right \in BOOLEAN : CharacterSetFacingCall(facing_right)

CharacterSpec == CharacterInit /\ [][CharacterNext]_vars

(***************************************************************************)
(* C16: a bubble is destroyed when it registers a hit                      *)
(***************************************************************************)
\* the enemies bubble i damaged in the last collision pass
HitBy(i) == {h[2] : h \in {g \in pass.hits : g[1] = i}}

\* C16: once a bubble has damaged an enemy in a collision pass it is inactive,
\* it damages no other enemy in that pass, and the bubbles a pass starts from
\* (those Player.update kept) are all active, so that a bubble that hit is gone
\* after the next Player.update and damages nothing in a later tick
C16_BubbleHitsOnce ==
    pass.ran =>
        /\ \A i \in PassBubbles : Cardinality(HitBy(i)) <= 1
        /\ \A i \in PassBubbles : HitBy(i) # {} => ~player.bubbles[i].isActive
        /\ \A i \in PassBubbles : pass.player.bubbles[i].isActive

(***************************************************************************)
(* C17: get_current_frame returns the frame at current_frame               *)
(***************************************************************************)
\* C17: after any sequence of update, play, stop, pause, resume and set_facing
\* calls the image get_current_frame returns is that of the frame at
\* current_frame; right after play() it is frame 0
C17_ImageIsCurrentFrame ==
    /\ get_current_frame(clip).frame = clip.current_frame
    /\ lastCall.op = "SpriteAnimation.play" => get_current_frame(clip).frame = 0

(***************************************************************************)
(* C18: the counters of a clip stay in range                               *)
(***************************************************************************)
UpdateStep == lastCall'.op = "SpriteAnimation.update" /\ clip' = SpriteUpdate(clip)

\* the clip shows its last frame for the last tick of that frame
AtLastTick(a) ==
    a.current_frame = a.frame_count - 1 /\ a.frame_timer = a.frame_duration - 1

\* C18: 0 <= current_frame < frame_count and 0 <= frame_timer < frame_duration
\* after any sequence of calls; update changes nothing when is_playing is
\* false; a looping clip wraps from the last frame to frame 0
C18_CountersInRange ==
    /\ [](/\ 0 <= clip.current_frame /\ clip.current_frame < clip.frame_count
          /\ 0 <= clip.frame_timer /\ clip.frame_timer < clip.frame_duration)
    /\ [][UpdateStep /\ ~clip.is_playing => clip' = clip]_vars
    /\ [][UpdateStep /\ clip.is_playing /\ clip.is_looping /\ AtLastTick(clip)
              => clip'.current_frame = 0 /\ clip'.frame_timer = 0]_vars

\* the four-frame clip has just wrapped from frame 3 to frame 0
C18_Witness ==
    /\ lastCall.op = "SpriteAnimation.update"
    /\ clip.frame_count = 4
    /\ clip.is_playing /\ clip.is_looping
    /\ clip.current_frame = 0 /\ clip.frame_timer = 0
    /\ get_current_frame(clip).frame = 0

(***************************************************************************)
(* C19: mirroring is never applied twice                                   *)
(***************************************************************************)
\* C19: the frame returned is mirrored exactly when facing_right is false, and
\* set_facing(v) with v the current facing changes nothing
C19_MirroredIffFacingLeft ==
    /\ [](get_current_frame(clip).mirrored <=> ~clip.facing_right)
    /\ [][(/\ lastCall'.op = "SpriteAnimation.set_facing"
           /\ lastCall'.arg = clip.facing_right
           /\ clip' = set_facing(clip, lastCall'.arg)) => clip' = clip]_vars

\* set_facing(False) called again on a clip that faces left and has advanced
\* (update has flipped the new frame once already)
C19_Witness ==
    /\ lastCall = [op |-> "SpriteAnimation.set_facing", arg |-> FALSE]
    /\ ~clip.facing_right
    /\ clip.current_frame = 2
    /\ get_current_frame(clip) = flip(Frame(2))

(***************************************************************************)
(* C20: CharacterAnimation.change_state                                    *)
(***************************************************************************)
\* the counters of the clip bound to a state
Counters(c, state) ==
    [current_frame |-> c.animations[state].current_frame,
     frame_timer   |-> c.animations[state].frame_timer,
     is_playing    |-> c.animations[state].is_playing]

Restarted == [current_frame |-> 0, frame_timer |-> 0, is_playing |-> TRUE]

\* C20: change_state(new) changes nothing when new is the current state or has
\* no clip; otherwise current_state becomes new, the clip of new restarts, and
\* the counters of every other clip stay as they were
C20_ChangeState ==
    [][(/\ lastCall'.op = "CharacterAnimation.change_state"
        /\ character' = change_state(character, lastCall'.arg))
       => LET new == lastCall'.arg
          IN  IF new = character.current_state \/ ~Bound(character, new)
              THEN character' = character
              ELSE /\ character'.current_state = new
                   /\ DOMAIN character'.animations = DOMAIN character.animations
                   /\ Counters(character', new) = Restarted
                   /\ \A other \in DOMAIN character.animations \ {new} :
                          Counters(character', other) = Counters(character, other)]_vars

\* the character has just left the idle clip, at its second frame and
\* mid-frame, for the hurt clip, which had been played before
C20_Witness ==
    /\ lastCall = [op |-> "CharacterAnimation.change_state", arg |-> "hurt"]
    /\ character.current_state = "hurt"
    /\ Bound(character, "idle")
    /\ Counters(character, "idle") = [current_frame |-> 1, frame_timer |-> 3, is_playing |-> TRUE]
    /\ Counters(character, "hurt") = Restarted
    /\ get_current_frame(character.animations["hurt"]).frame = 1

(***************************************************************************)
(* C21: what CharacterAnimation.update and set_facing forward to           *)
(***************************************************************************)
\* C21: update advances the clip bound to current_state and leaves every other
\* clip as it was; set_facing turns every bound clip; so all bound clips have
\* the same facing_right after any sequence of calls
C21_ForwardingOfUpdateAndFacing ==
    /\ [][(/\ lastCall'.op = "CharacterAnimation.update"
           /\ character' = CharacterUpdate(character))
          => /\ character'.current_state = character.current_state
             /\ DOMAIN character'.animations = DOMAIN character.animations
             /\ \A state \in DOMAIN character.animations :
                    character'.animations[state] =
                        IF state = character.current_state
                        THEN SpriteUpdate(character.animations[state])
                        ELSE character.animations[state]]_vars
    /\ [][(/\ lastCall'.op = "CharacterAnimation.set_facing"
           /\ character' = CharacterSetFacing(character, lastCall'.arg))
          => \A state \in DOMAIN character'.animations :
                 character'.animations[state].facing_right = lastCall'.arg]_vars
    /\ [](\A s1 \in DOMAIN character.animations : \A s2 \in DOMAIN character.animations :
              character.animations[s1].facing_right = character.animations[s2].facing_right)

\* the idle clip has advanced under update while the hurt clip, bound but not
\* current, has not moved, and both were turned to the left
C21_Witness ==
    /\ lastCall.op = "CharacterAnimation.update"
    /\ character.current_state = "idle"
    /\ Bound(character, "idle") /\ Bound(character, "hurt")
    /\ character.animations["idle"].current_frame = 1
    /\ character.animations["hurt"].current_frame = 0
    /\ character.animations["hurt"].frame_timer = 0
    /\ ~character.animations["idle"].facing_right
    /\ ~character.animations["hurt"].facing_right

(***************************************************************************)
(* C22: the liveness gate of an enemy                                      *)
(***************************************************************************)
\* C22: for damage >= 0, in every state reached through takeDamage and update
\* 0 <= hp <= maxHp and isAlive holds exactly when hp > 0; an enemy that is not
\* alive never becomes alive again, and update changes no field of it
C22_EnemyLivenessGate ==
    /\ [](\A j \in 1..Len(enemies) :
              /\ 0 <= enemies[j].hp /\ enemies[j].hp <= enemies[j].maxHp
              /\ enemies[j].isAlive <=> enemies[j].hp > 0)
    /\ [][\A j \in 1..Len(enemies) : ~enemies[j].isAlive => ~enemies'[j].isAlive]_vars
    /\ [][\A j \in 1..Len(enemies) :
              (lastCall'.op = "Enemy.update" /\ lastCall'.arg = j /\ ~enemies[j].isAlive)
                  => enemies' = enemies]_vars

\* the jellyfish was updated once, killed, and updated again: it is where the
\* first update left it
C22_Witness ==
    /\ lastCall = [op |-> "Enemy.update", arg |-> 2]
    /\ calls.enemyUpdates = 2
    /\ ~enemies[2].isAlive /\ enemies[2].hp = 0
    /\ enemies[2] = [EnemyUpdate(NewJellyfish(700, 100), player.position)
                         EXCEPT !.hp = 0, !.isAlive = FALSE]

(***************************************************************************)
(* C23: no direct cuts                                                     *)
(***************************************************************************)
\* C23: currentState changes only in a SceneManager.update that starts with
\* isTransitioning true and transitionAlpha = 255, and it becomes the nextState
\* recorded when the transition was accepted; changeState never changes it
C23_NoDirectCuts ==
    [][/\ sceneManager'.currentState # sceneManager.currentState
              => (/\ lastCall'.op = "updateTransition"
                  /\ sceneManager.isTransitioning
                  /\ sceneManager.transitionAlpha = ALPHA_MAX
                  /\ sceneManager'.currentState = sceneManager.nextState
                  /\ sceneManager.nextState = accepted.to)
       /\ lastCall'.op = "changeState"
              => sceneManager'.currentState = sceneManager.currentState]_vars

\* the update that found the alpha at 255 has just cut from Title to Playing
C23_Witness ==
    /\ lastCall.op = "updateTransition"
    /\ accepted.from = "TITLE" /\ accepted.to = "PLAYING" /\ accepted.swapped
    /\ sceneManager.currentState = "PLAYING"
    /\ sceneManager.transitionAlpha = ALPHA_MAX - TRANSITION_SPEED
    /\ accepted.dropped = {}

(***************************************************************************)
(* C24: one SceneManager.update does one of two things                     *)
(***************************************************************************)
\* the fields of the transition
TransitionFields(sm) == <<sm.nextState, sm.isTransitioning, sm.transitionAlpha>>

\* C24: a SceneManager.update that finds isTransitioning true advances the
\* transition by one step and invokes no update handler; one that finds it
\* false invokes the update handler of currentState, once, and leaves the
\* fields of the transition as they were
C24_UpdateDoesOneThing ==
    [][lastCall'.op \in {"updateTransition", "updateHandler"} =>
          IF sceneManager.isTransitioning
          THEN /\ lastCall'.op = "updateTransition"
               /\ sceneManager' = updateTransition(sceneManager)
               /\ sceneManager'.transitionAlpha # sceneManager.transitionAlpha
               /\ UNCHANGED <<player, enemies, pass>>
          ELSE /\ lastCall' = [op |-> "updateHandler", arg |-> sceneManager.currentState]
               /\ TransitionFields(sceneManager') = TransitionFields(sceneManager)
               /\ sceneManager'.currentState = sceneManager.currentState
               /\ sceneManager.currentState # "PLAYING" => UNCHANGED <<player, enemies, pass>>]_vars

\* the state is Playing with the transition still pending, ramping up for the
\* second time: no update of the player, the enemies or the collisions has run
C24_Witness ==
    /\ lastCall.op = "updateTransition"
    /\ sceneManager.currentState = "PLAYING"
    /\ sceneManager.isTransitioning
    /\ accepted.swapped
    /\ sceneManager.transitionAlpha = ALPHA_MAX
    /\ ~pass.ran
    /\ player = NewPlayer(SCREEN_WIDTH \div 2, SCREEN_HEIGHT \div 2)

(***************************************************************************)
(* C25: the GameOver state                                                 *)
(***************************************************************************)
\* C25: GameOver is reachable by key presses and ticks: it is among the states
\* the game can be brought to from the state it is in
C25_GameOverReachable ==
    \/ sceneManager.currentState = "GAME_OVER"
    \/ "GAME_OVER" \in StatesWithin({sceneManager.currentState})

\* under key presses and ticks the state is never GameOver, nor is GameOver
\* ever the target of a request
GameOverNeverEntered ==
    /\ sceneManager.currentState # "GAME_OVER"
    /\ sceneManager.nextState # "GAME_OVER"

(***************************************************************************)
(* C26: stamina per tick                                                   *)
(***************************************************************************)
\* DASH_COST * 0.016, the stamina a tick of dash costs
DashDrain == (DASH_COST * FRAME_TIME_MILLIS) \div 1000

\* C26: in a Player.update in which the player dashes, stamina goes down by
\* DASH_COST * tickDuration and is not regenerated; in one in which it does not,
\* stamina goes up by 0.5, capped at maxStamina; a held dash at stamina = 20
\* leaves 20 - 20 * tickDuration
C26_StaminaRule ==
    [][lastCall'.op = "Player.update" =>
          /\ IF player'.isDashing
             THEN player'.stamina = player.stamina - DashDrain
             ELSE player'.stamina = Min(player.maxStamina, player.stamina + STAMINA_REGEN)
          /\ (player.stamina = DASH_COST /\ "K_LSHIFT" \in lastCall'.arg)
                 => player'.stamina = DASH_COST - DashDrain]_vars

\* dash was held for one tick at stamina = 20: 19.68 is left
C26_Witness ==
    /\ lastCall.op = "Player.update"
    /\ "K_LSHIFT" \in lastCall.arg
    /\ calls.ticks = 1
    /\ player.isDashing
    /\ player.stamina = DASH_COST - DashDrain

C28_OneShotTerminates ==
    /\ [](calls.sincePlay >= 0
            => /\ clip.is_playing <=> calls.sincePlay < clip.frame_count * clip.frame_duration
               /\ ~clip.is_playing => clip.current_frame = clip.frame_count - 1)
    /\ [][lastCall'.op = "SpriteAnimation.update" /\ ~clip.is_playing
              => clip' = clip]_vars
    /\ [][~clip.is_playing /\ clip'.is_playing
              => lastCall'.op \in {"SpriteAnimation.play", "SpriteAnimation.resume"}]_vars

\* the 3-frame clip of 4 updates a frame, one update after the 12 that end its
\* one-shot play
C28_Witness ==
    /\ clip.frame_count = 3
    /\ clip.frame_duration = 4
    /\ calls.sincePlay = 13
    /\ ~clip.is_playing
    /\ clip.current_frame = 2
    /\ lastCall.op = "SpriteAnimation.update"

(***************************************************************************)
(* C29: an inactive bubble stays inactive: no call sets isActive again,    *)
(* hit() on an inactive bubble changes nothing and hit() always leaves the *)
(* bubble inactive, update() on an inactive bubble returns False and moves *)
(* neither lifetime nor position, and an update() that leaves the box      *)
(* wholly outside of the 800 x 600 arena leaves the bubble inactive.       *)
(***************************************************************************)
LeftArena(rect) ==
    \/ rect.x + BUBBLE_SIZE < 0
    \/ rect.x > 800
    \/ rect.y + BUBBLE_SIZE < 0
    \/ rect.y > 600

C29_InactivityIsAbsorbing ==
    /\ [][~bubble.isActive => ~bubble'.isActive]_vars
    /\ [][lastCall'.op = "Bubble.hit"
              => /\ ~bubble'.isActive
                 /\ ~bubble.isActive => bubble' = bubble]_vars
    /\ [][lastCall'.op = "Bubble.update" /\ ~bubble.isActive
              => /\ ~calls'.bubbleReturn
                 /\ bubble'.lifetime = bubble.lifetime
                 /\ bubble'.position = bubble.position]_vars
    /\ [][lastCall'.op = "Bubble.update" /\ LeftArena(bubble'.rect)
              => ~bubble'.isActive /\ ~calls'.bubbleReturn]_vars

\* a bubble that left the arena by its left edge, was hit afterwards, and was
\* updated again
C29_Witness ==
    /\ lastCall.op = "Bubble.update"
    /\ calls.bubbleHit
    /\ ~bubble.isActive
    /\ ~calls.bubbleReturn
    /\ bubble.rect.x + BUBBLE_SIZE < 0
    /\ bubble.lifetime = BUBBLE_LIFETIME - 2
    /\ calls.bubbleUpdates > 3

(***************************************************************************)
(* C30: after Player.update, Enemy.update and Jellyfish.update the rect of *)
(* the actor lies within the 800 x 600 arena, and on each axis on which    *)
(* constrainToScreen found the rect over an edge the position is the       *)
(* rect's corner.                                                          *)
(***************************************************************************)
InArena(rect, size) ==
    /\ rect.x >= 0
    /\ rect.x + size <= 800
    /\ rect.y >= 0
    /\ rect.y + size <= 600

\* constrainToScreen found the rect over an edge on this axis
Clamped(before, size, limit) == before < 0 \/ before + size > limit

C30_ArenaContainment ==
    /\ lastCall.op = "Player.update" =>
           /\ InArena(player.rect, PLAYER_SIZE)
           /\ Clamped(clamp.player.rect.x, PLAYER_SIZE, 800)
                  => player.position.x = player.rect.x * PosScale
           /\ Clamped(clamp.player.rect.y, PLAYER_SIZE, 600)
                  => player.position.y = player.rect.y * PosScale
    /\ lastCall.op = "Enemy.update" =>
           LET e == enemies[lastCall.arg] IN
           /\ InArena(e.rect, ENEMY_SIZE)
           /\ Clamped(clamp.enemy.rect.x, ENEMY_SIZE, 800)
                  => e.position.x = e.rect.x * PosScale
           /\ Clamped(clamp.enemy.rect.y, ENEMY_SIZE, 600)
                  => e.position.y = e.rect.y * PosScale

\* an enemy whose update carried its rect past the right edge is back at 768,
\* beside a player that was clamped at the bottom or right edge in its own update
C30_Witness ==
    /\ lastCall.op = "Enemy.update"
    /\ clamp.enemy.rect.x + ENEMY_SIZE > 800
    /\ enemies[lastCall.arg].rect.x = 800 - ENEMY_SIZE
    /\ enemies[lastCall.arg].position.x = (800 - ENEMY_SIZE) * PosScale
    /\ clamp.playerUpdated
    /\ \/ clamp.player.rect.x + PLAYER_SIZE > 800
       \/ clamp.player.rect.y + PLAYER_SIZE > 600
    /\ InArena(player.rect, PLAYER_SIZE)

(***************************************************************************)
(* C31: dashing cannot exhaust the stamina. From stamina = maxStamina, in  *)
(* every state reached by calls of Player.update, takeDamage and heal the  *)
(* stamina is at least DASH_COST - DASH_COST * 0.016, hence above 0, and   *)
(* the stamina goes down only in a step that starts with DASH_COST or more.*)
(***************************************************************************)
C31_StaminaNeverExhausted ==
    /\ [](player.stamina >= DASH_COST - DashDrain /\ player.stamina > 0)
    /\ [][player'.stamina < player.stamina => player.stamina >= DASH_COST]_vars

\* the dash key held from stamina = 20: a tick of dash, a tick in which the dash
\* is refused and 0.5 comes back, and a tick of dash again
C31_Witness ==
    /\ lastCall.op = "Player.update"
    /\ "K_LSHIFT" \in lastCall.arg
    /\ calls.ticks = 3
    /\ player.isDashing
    /\ player.stamina = DASH_COST - DashDrain + STAMINA_REGEN - DashDrain
    /\ player.stamina < DASH_COST

(***************************************************************************)
(* C32: after every Player.update the player holds at most 3 bubbles, and  *)
(* every bubble it holds is active.                                        *)
(***************************************************************************)
C32_AtMostThreeBubbles ==
    lastCall.op = "Player.update" =>
        /\ Len(player.bubbles) <= 3
        /\ \A i \in 1..Len(player.bubbles) : player.bubbles[i].isActive

\* the fourth bubble of a volley fired as fast as the cooldown allows: the first
\* one was removed in the update before, and three are held
C32_Witness ==
    /\ lastCall.op = "Player.update"
    /\ calls.ticks = 3 * BUBBLE_COOLDOWN + 1
    /\ calls.fired
    /\ Len(player.bubbles) = 3
    /\ player.bubbles[1].lifetime = BUBBLE_LIFETIME - 2 * BUBBLE_COOLDOWN - 1
    /\ player.bubbles[3].lifetime = BUBBLE_LIFETIME - 1
====
